---- MODULE Spec2Model ----
(***************************************************************************)
(* Dungeon Escape: the game-state engine of src/main.cpp.                  *)
(*                                                                         *)
(* The state is the Game object (screen state machine), the name input     *)
(* screen, the Player, the Dungeon (room list, cursor, path tracker) and   *)
(* the GamePlayScreen (interaction state, fade transition, deferred        *)
(* callback).  One step is one event delivered by Game::processEvents or   *)
(* one frame of Game::update in which a fade has run to its end.  Frames   *)
(* in which no fade ends change nothing and are stuttering steps.          *)
(* Texts, textures, the action log and room descriptions are display only  *)
(* and are left out, and so are the window's Closed and Resized events.    *)
(***************************************************************************)
EXTENDS Integers, Sequences, FiniteSets, TLC

VARIABLES
    currentStateID,        \* Game::currentStateID
    nextStateID,           \* Game::nextStateID
    currentTransition,     \* Game::currentTransition
    playerName,            \* Game::playerName, kept as its length
    isActive,              \* NameInputScreen::isActive
    playerLogic,           \* Game::playerLogic: << >> is nullptr, else <<Player>>
    dungeonLogic,          \* Game::dungeonLogic: << >> is nullptr, else <<Dungeon>>
    gameOverReason,        \* reason of screens[GAME_OVER], NoReason when absent
    currentState,          \* GamePlayScreen::currentState
    transitionState,       \* GamePlayScreen::transitionState
    onTransitionComplete,  \* GamePlayScreen::onTransitionComplete
    emitted,               \* history: calls of triggerGameOver since startGameplay
    lastEvent              \* history: the event or frame that made the last step

vars == << currentStateID, nextStateID, currentTransition, playerName, isActive,
           playerLogic, dungeonLogic, gameOverReason, currentState,
           transitionState, onTransitionComplete, emitted, lastEvent >>

-----------------------------------------------------------------------------
(* Program constants *)

MAX_NAME_LENGTH == 15
StartHealth == 100
StartMoves == 10
FullHealth == 100
PotionHeal == 100
SwordBossDamage == 50
WizardDamage == 10
DragonDamage == 15
ZombieDamage == 5
MonsterDamage == 10
BossDamage == 75

SwordRoomName == "Chamber of the Cursed Blades"
NoReason == "NONE"
ReasonWin == "You used the Golden key and escaped. You are VICTORIOUS!"
ReasonBoss == "The final door is locked tight. The boss must be defeated!"
ReasonKey == "The final door is locked. You needed the Golden Key."
ReasonMoves == "You have run out of moves."
ReasonDied == "You have died in combat."
ReasonFled == "You fled in terror!"

nullptr == 0

\* the rooms that setupDungeon adds
NumRooms == 9

(* Bound of the model: the characters typed into one name.  The name's      *)
(* content never reaches the game engine, only the name input screen reads  *)
(* its length.                                                              *)
MaxTyped == 2

-----------------------------------------------------------------------------
(* Entities *)

NoEntity == [kind |-> "nullptr"]
MinionEnemy(n, d) == [kind |-> "MinionEnemy", name |-> n, damage |-> d]
BossEnemy(n, d) == [kind |-> "BossEnemy", name |-> n, damage |-> d]
Weapon(n) == [kind |-> "Weapon", name |-> n]
Potion(n) == [kind |-> "Potion", name |-> n]
Key(n) == [kind |-> "Key", name |-> n]

\* dynamic_cast<Enemy*>, dynamic_cast<Item*>
IsEnemy(e) == e.kind \in {"Enemy", "MinionEnemy", "BossEnemy"}
IsItem(e) == e.kind \in {"Item", "Weapon", "Potion", "Key"}

-----------------------------------------------------------------------------
(* Stack<Room*>: the top of the stack is the head of the sequence.  A call   *)
(* that can throw gives either [value |-> v] or the exception thrown.       *)

runtime_error(what) == [throw |-> what]

push_Bottom(st, value) == st \o << value >>
push(st, value) == <<value>> \o st
pop(st) == IF st = << >> THEN st ELSE Tail(st)
top_ReturnsNull(st) == IF st = << >> THEN [value |-> 0] ELSE [value |-> Head(st)]
top(st) == IF st = << >> THEN runtime_error("Stack is empty.") ELSE [value |-> Head(st)]
isEmpty(st) == st = << >>

-----------------------------------------------------------------------------
(* Inventory<std::string> *)

add_LosesItems(items, item) == << item >>
add(items, item) == Append(items, item)
has(items, item) == \E i \in 1..Len(items) : items[i] = item

-----------------------------------------------------------------------------
(* Player *)

Player(n, h, m) == [name |-> n, health |-> h, moves |-> m,
                    inventory |-> << >>, finalBossDefeated |-> FALSE]

takeDamage_NoClamp(p, damage) == [p EXCEPT !.health = @ - damage]

takeDamage(p, damage) ==
    LET h == p.health - damage
    IN  [p EXCEPT !.health = IF h < 0 THEN 0 ELSE h]

heal(p, amount) ==
    [p EXCEPT !.health = IF p.health + amount < FullHealth
                         THEN p.health + amount ELSE FullHealth]

useMove_Twice(p) == [p EXCEPT !.moves = @ - 2]

useMove(p) == [p EXCEPT !.moves = @ - 1]
collectItem(p, item) == [p EXCEPT !.inventory = add(@, item)]
hasItem(p, item) == has(p.inventory, item)
setBossDefeated(p, status) == [p EXCEPT !.finalBossDefeated = status]

-----------------------------------------------------------------------------
(* Room and Dungeon.  A Room* is the room's position in rooms, nullptr is 0 *)

Room(n) == [name |-> n, entity |-> NoEntity, next |-> nullptr,
            isFinalDoor |-> FALSE, isChoiceRoom |-> FALSE]

Dungeon == [rooms |-> << >>, head |-> nullptr, currentRoom |-> nullptr,
            path_tracker |-> << >>]

RECURSIVE lastRoom(_, _)
lastRoom(d, temp) ==
    IF d.rooms[temp].next # nullptr THEN lastRoom(d, d.rooms[temp].next) ELSE temp

addRoom(d, newRoom) ==
    LET r == Len(d.rooms) + 1
        d1 == [d EXCEPT !.rooms = Append(@, newRoom)]
    IN  IF d.head = nullptr
        THEN [d1 EXCEPT !.head = r, !.currentRoom = r]
        ELSE [d1 EXCEPT !.rooms[lastRoom(d, d.head)].next = r]

canMoveBack(d) == ~isEmpty(d.path_tracker)
canMoveForward(d) == d.currentRoom # nullptr /\ d.rooms[d.currentRoom].next # nullptr

\* Dungeon::moveForward and moveBack act on the player and on the dungeon
moveForward_Gated(s) ==
    LET d == s.dungeonLogic[1]
    IN  IF canMoveForward(d) /\ s.playerLogic[1].moves > 0
        THEN [s EXCEPT !.playerLogic[1] = useMove(@),
                       !.dungeonLogic[1].path_tracker = push(@, d.currentRoom),
                       !.dungeonLogic[1].currentRoom = d.rooms[d.currentRoom].next]
        ELSE s

moveForward_PushesNext(s) ==
    LET d == s.dungeonLogic[1]
    IN  IF canMoveForward(d)
        THEN [s EXCEPT !.playerLogic[1] = useMove(@),
                       !.dungeonLogic[1].path_tracker = push(@, d.rooms[d.currentRoom].next),
                       !.dungeonLogic[1].currentRoom = d.rooms[d.currentRoom].next]
        ELSE s

moveForward(s) ==
    LET d == s.dungeonLogic[1]
    IN  IF canMoveForward(d)
        THEN [s EXCEPT !.playerLogic[1] = useMove(@),
                       !.dungeonLogic[1].path_tracker = push(@, d.currentRoom),
                       !.dungeonLogic[1].currentRoom = d.rooms[d.currentRoom].next]
        ELSE s

moveBack_OffByOne(s) ==
    LET d == s.dungeonLogic[1]
    IN  IF canMoveBack(d)
        THEN [s EXCEPT !.playerLogic[1] = useMove(@),
                       !.dungeonLogic[1].currentRoom = top(d.path_tracker).value - 1,
                       !.dungeonLogic[1].path_tracker = pop(@)]
        ELSE s

moveBack_NoPop(s) ==
    LET d == s.dungeonLogic[1]
    IN  IF canMoveBack(d)
        THEN [s EXCEPT !.playerLogic[1] = useMove(@),
                       !.dungeonLogic[1].currentRoom = top(d.path_tracker).value]
        ELSE s

moveBack(s) ==
    LET d == s.dungeonLogic[1]
    IN  IF canMoveBack(d)
        THEN [s EXCEPT !.playerLogic[1] = useMove(@),
                       !.dungeonLogic[1].currentRoom = top(d.path_tracker).value,
                       !.dungeonLogic[1].path_tracker = pop(@)]
        ELSE s

interact_NoDowncast(p, item) == collectItem(p, item.name)

\* Item::interact
interact(p, item) ==
    IF item.kind = "Potion" THEN heal(p, PotionHeal) ELSE collectItem(p, item.name)

RECURSIVE addRooms(_, _)
addRooms(d, rs) == IF rs = << >> THEN d ELSE addRooms(addRoom(d, Head(rs)), Tail(rs))

setupDungeon(d) ==
    LET entrance == Room("Dungeon Entrance")
        wizardStudy == [Room("Sanctum of Fire and Frost") EXCEPT
                            !.entity = MinionEnemy("Wizard", WizardDamage)]
        dragonLair == [Room("Dragon's Lair") EXCEPT
                            !.entity = MinionEnemy("Dragon", DragonDamage)]
        zombieCrypt == [Room("Zombie's Crypt") EXCEPT
                            !.entity = MinionEnemy("Zombie", ZombieDamage)]
        weaponRoom == [Room(SwordRoomName) EXCEPT !.entity = Weapon("Sword")]
        choiceRoom == [Room("Room of Choice") EXCEPT !.isChoiceRoom = TRUE]
        monsterDen == [Room("Giant Monster's Den") EXCEPT
                            !.entity = MinionEnemy("Giant Monster", MonsterDamage)]
        bossChamber == [Room("Final Boss Chamber") EXCEPT
                            !.entity = BossEnemy("Final Boss", BossDamage)]
        finalDoor == [Room("The Final Door") EXCEPT !.isFinalDoor = TRUE]
    IN  addRooms(d, << entrance, wizardStudy, dragonLair, zombieCrypt, weaponRoom,
                       choiceRoom, monsterDen, bossChamber, finalDoor >>)

-----------------------------------------------------------------------------
(* The whole program state as one record, so that a handler and the calls   *)
(* it makes are one function from state to state.                           *)

State == [currentStateID |-> currentStateID, nextStateID |-> nextStateID,
          currentTransition |-> currentTransition, playerName |-> playerName,
          isActive |-> isActive, playerLogic |-> playerLogic,
          dungeonLogic |-> dungeonLogic, gameOverReason |-> gameOverReason,
          currentState |-> currentState, transitionState |-> transitionState,
          onTransitionComplete |-> onTransitionComplete, emitted |-> emitted]

Becomes(s) ==
    /\ currentStateID' = s.currentStateID
    /\ nextStateID' = s.nextStateID
    /\ currentTransition' = s.currentTransition
    /\ playerName' = s.playerName
    /\ isActive' = s.isActive
    /\ playerLogic' = s.playerLogic
    /\ dungeonLogic' = s.dungeonLogic
    /\ gameOverReason' = s.gameOverReason
    /\ currentState' = s.currentState
    /\ transitionState' = s.transitionState
    /\ onTransitionComplete' = s.onTransitionComplete
    /\ emitted' = s.emitted

getCurrentRoom(s) == s.dungeonLogic[1].currentRoom
RoomAt(s, r) == s.dungeonLogic[1].rooms[r]

-----------------------------------------------------------------------------
(* Game: screen changes *)

changeScreen_NoGuard(s, newStateID) ==
    [s EXCEPT !.nextStateID = newStateID, !.currentTransition = "FADING_OUT"]

changeScreen(s, newStateID) ==
    IF s.currentTransition = "NONE" /\ newStateID # s.currentStateID
    THEN [s EXCEPT !.nextStateID = newStateID, !.currentTransition = "FADING_OUT"]
    ELSE s

-----------------------------------------------------------------------------
(* GamePlayScreen *)

NoCallback == [op |-> "nullptr", arg |-> 0]
Callback(op, arg) == [op |-> op, arg |-> arg]

startTransition(s, callback) ==
    IF s.transitionState = "NONE"
    THEN [s EXCEPT !.transitionState = "FADING_OUT", !.onTransitionComplete = callback]
    ELSE s

triggerGameOver_Stays(s, reason) ==
    [s EXCEPT !.gameOverReason = reason, !.emitted = @ + 1]

triggerGameOver(s, reason) ==
    changeScreen([s EXCEPT !.gameOverReason = reason, !.emitted = @ + 1], "GAME_OVER")

handleItemInteraction(s) ==
    LET room == getCurrentRoom(s)
    IN  IF room = nullptr \/ RoomAt(s, room).entity = NoEntity THEN s
        ELSE IF ~IsItem(RoomAt(s, room).entity) THEN s
        ELSE [s EXCEPT !.playerLogic[1] = interact(@, RoomAt(s, room).entity),
                       !.dungeonLogic[1].rooms[room].entity = NoEntity,
                       !.currentState = "EXPLORING"]

canEscape_BossOnly(p) == p.finalBossDefeated

\* the test of the final door that decides a win
canEscape(p) == hasItem(p, "Golden Key") /\ p.finalBossDefeated

checkRoomState_EntityFirst(s) ==
    LET room == getCurrentRoom(s)
        p == s.playerLogic[1]
    IN  IF room = nullptr THEN s
        ELSE IF RoomAt(s, room).entity # NoEntity
        THEN IF RoomAt(s, room).entity.kind = "Weapon"
                /\ RoomAt(s, room).name = SwordRoomName
             THEN [s EXCEPT !.currentState = "EXPLORING"]
             ELSE IF IsEnemy(RoomAt(s, room).entity)
             THEN [s EXCEPT !.currentState = "COMBAT"]
             ELSE handleItemInteraction(s)
        ELSE IF RoomAt(s, room).isFinalDoor
        THEN IF canEscape(p)
             THEN triggerGameOver(s, ReasonWin)
             ELSE IF hasItem(p, "Golden Key")
             THEN triggerGameOver(s, ReasonBoss)
             ELSE triggerGameOver(s, ReasonKey)
        ELSE IF RoomAt(s, room).isChoiceRoom
        THEN [s EXCEPT !.currentState = "CHOICE"]
        ELSE [s EXCEPT !.currentState = "EXPLORING"]

checkRoomState_ChoiceFirst(s) ==
    LET room == getCurrentRoom(s)
        p == s.playerLogic[1]
    IN  IF room = nullptr THEN s
        ELSE IF RoomAt(s, room).isFinalDoor
        THEN IF canEscape(p)
             THEN triggerGameOver(s, ReasonWin)
             ELSE IF hasItem(p, "Golden Key")
             THEN triggerGameOver(s, ReasonBoss)
             ELSE triggerGameOver(s, ReasonKey)
        ELSE IF RoomAt(s, room).isChoiceRoom
        THEN [s EXCEPT !.currentState = "CHOICE"]
        ELSE IF RoomAt(s, room).entity # NoEntity
        THEN IF RoomAt(s, room).entity.kind = "Weapon"
                /\ RoomAt(s, room).name = SwordRoomName
             THEN [s EXCEPT !.currentState = "EXPLORING"]
             ELSE IF IsEnemy(RoomAt(s, room).entity)
             THEN [s EXCEPT !.currentState = "COMBAT"]
             ELSE handleItemInteraction(s)
        ELSE [s EXCEPT !.currentState = "EXPLORING"]

checkRoomState_PicksWeapon(s) ==
    LET room == getCurrentRoom(s)
        p == s.playerLogic[1]
    IN  IF room = nullptr THEN s
        ELSE IF RoomAt(s, room).isFinalDoor
        THEN IF canEscape(p)
             THEN triggerGameOver(s, ReasonWin)
             ELSE IF hasItem(p, "Golden Key")
             THEN triggerGameOver(s, ReasonBoss)
             ELSE triggerGameOver(s, ReasonKey)
        ELSE IF RoomAt(s, room).entity # NoEntity
        THEN IF IsEnemy(RoomAt(s, room).entity)
             THEN [s EXCEPT !.currentState = "COMBAT"]
             ELSE handleItemInteraction(s)
        ELSE IF RoomAt(s, room).isChoiceRoom
        THEN [s EXCEPT !.currentState = "CHOICE"]
        ELSE [s EXCEPT !.currentState = "EXPLORING"]

checkRoomState_HitOnEntry(s) ==
    LET room == getCurrentRoom(s)
        p == s.playerLogic[1]
    IN  IF room = nullptr THEN s
        ELSE IF RoomAt(s, room).isFinalDoor
        THEN IF canEscape(p)
             THEN triggerGameOver(s, ReasonWin)
             ELSE IF hasItem(p, "Golden Key")
             THEN triggerGameOver(s, ReasonBoss)
             ELSE triggerGameOver(s, ReasonKey)
        ELSE IF RoomAt(s, room).entity # NoEntity
        THEN IF RoomAt(s, room).entity.kind = "Weapon"
                /\ RoomAt(s, room).name = SwordRoomName
             THEN [s EXCEPT !.currentState = "EXPLORING"]
             ELSE IF IsEnemy(RoomAt(s, room).entity)
             THEN [s EXCEPT !.currentState = "COMBAT",
                            !.playerLogic[1] =
                                takeDamage(@, RoomAt(s, room).entity.damage)]
             ELSE handleItemInteraction(s)
        ELSE IF RoomAt(s, room).isChoiceRoom
        THEN [s EXCEPT !.currentState = "CHOICE"]
        ELSE [s EXCEPT !.currentState = "EXPLORING"]

checkRoomState(s) ==
    LET room == getCurrentRoom(s)
        p == s.playerLogic[1]
    IN  IF room = nullptr THEN s
        ELSE IF RoomAt(s, room).isFinalDoor
        THEN IF canEscape(p)
             THEN triggerGameOver(s, ReasonWin)
             ELSE IF hasItem(p, "Golden Key")
             THEN triggerGameOver(s, ReasonBoss)
             ELSE triggerGameOver(s, ReasonKey)
        ELSE IF RoomAt(s, room).entity # NoEntity
        THEN IF RoomAt(s, room).entity.kind = "Weapon"
                /\ RoomAt(s, room).name = SwordRoomName
             THEN [s EXCEPT !.currentState = "EXPLORING"]
             ELSE IF IsEnemy(RoomAt(s, room).entity)
             THEN [s EXCEPT !.currentState = "COMBAT"]
             ELSE handleItemInteraction(s)
        ELSE IF RoomAt(s, room).isChoiceRoom
        THEN [s EXCEPT !.currentState = "CHOICE"]
        ELSE [s EXCEPT !.currentState = "EXPLORING"]

effectiveDamage_NoSword(p, enemy) == enemy.damage

effectiveDamage_BossOnly(p, enemy) ==
    IF enemy.kind = "BossEnemy"
    THEN IF hasItem(p, "Sword") THEN SwordBossDamage ELSE enemy.damage
    ELSE 0

\* int effectiveDamage of handleCombat
effectiveDamage(p, enemy) ==
    IF enemy.kind = "BossEnemy"
    THEN IF hasItem(p, "Sword") THEN SwordBossDamage ELSE enemy.damage
    ELSE enemy.damage

handleCombat_ClearsFirst(s) ==
    LET room == getCurrentRoom(s)
    IN  IF room = nullptr \/ RoomAt(s, room).entity = NoEntity THEN s
        ELSE IF ~IsEnemy(RoomAt(s, room).entity) THEN s
        ELSE
        LET enemy == RoomAt(s, room).entity
            s1 == [s EXCEPT !.playerLogic[1] =
                                takeDamage(@, effectiveDamage(@, enemy)),
                            !.dungeonLogic[1].rooms[room].entity = NoEntity]
        IN  IF s1.playerLogic[1].health <= 0
            THEN triggerGameOver(s1, ReasonDied)
            ELSE LET s2 == IF enemy.kind = "BossEnemy"
                           THEN [s1 EXCEPT !.playerLogic[1] = setBossDefeated(@, TRUE)]
                           ELSE s1
                 IN  [s2 EXCEPT !.currentState = "MESSAGE"]

handleCombat_ClearsAll(s) ==
    LET s1 == handleCombat_ClearsFirst(s)
    IN  IF s1.currentState # "MESSAGE" THEN s1
        ELSE [s1 EXCEPT !.dungeonLogic[1].rooms =
                 [r \in DOMAIN @ |-> [@[r] EXCEPT !.entity = NoEntity]]]

handleCombat_NoBossFlag(s) ==
    LET room == getCurrentRoom(s)
    IN  IF room = nullptr \/ RoomAt(s, room).entity = NoEntity THEN s
        ELSE IF ~IsEnemy(RoomAt(s, room).entity) THEN s
        ELSE
        LET enemy == RoomAt(s, room).entity
            s1 == [s EXCEPT !.playerLogic[1] =
                                takeDamage(@, effectiveDamage(@, enemy))]
        IN  IF s1.playerLogic[1].health <= 0
            THEN triggerGameOver(s1, ReasonDied)
            ELSE [s1 EXCEPT !.dungeonLogic[1].rooms[room].entity = NoEntity,
                            !.currentState = "MESSAGE"]

handleCombat_EnemyStays(s) ==
    LET room == getCurrentRoom(s)
    IN  IF room = nullptr \/ RoomAt(s, room).entity = NoEntity THEN s
        ELSE IF ~IsEnemy(RoomAt(s, room).entity) THEN s
        ELSE
        LET enemy == RoomAt(s, room).entity
            s1 == [s EXCEPT !.playerLogic[1] =
                                takeDamage(@, effectiveDamage(@, enemy))]
        IN  IF s1.playerLogic[1].health <= 0
            THEN triggerGameOver(s1, ReasonDied)
            ELSE LET s2 == IF enemy.kind = "BossEnemy"
                           THEN [s1 EXCEPT !.playerLogic[1] = setBossDefeated(@, TRUE)]
                           ELSE s1
                 IN  [s2 EXCEPT !.currentState = "MESSAGE"]

handleCombat(s) ==
    LET room == getCurrentRoom(s)
    IN  IF room = nullptr \/ RoomAt(s, room).entity = NoEntity THEN s
        ELSE IF ~IsEnemy(RoomAt(s, room).entity) THEN s
        ELSE
        LET enemy == RoomAt(s, room).entity
            s1 == [s EXCEPT !.playerLogic[1] =
                                takeDamage(@, effectiveDamage(@, enemy))]
        IN  IF s1.playerLogic[1].health <= 0
            THEN triggerGameOver(s1, ReasonDied)
            ELSE LET s2 == IF enemy.kind = "BossEnemy"
                           THEN [s1 EXCEPT !.playerLogic[1] = setBossDefeated(@, TRUE)]
                           ELSE s1
                 IN  [s2 EXCEPT !.dungeonLogic[1].rooms[room].entity = NoEntity,
                                !.currentState = "MESSAGE"]

handleChoice_KeepsFlag(s, choice) ==
    LET room == getCurrentRoom(s)
    IN  IF room = nullptr \/ ~RoomAt(s, room).isChoiceRoom THEN s
        ELSE LET s1 == IF choice = 1
                       THEN [s EXCEPT !.playerLogic[1] = collectItem(@, "Golden Key")]
                       ELSE [s EXCEPT !.playerLogic[1] = heal(@, PotionHeal)]
             IN  [s1 EXCEPT !.currentState = "EXPLORING"]

handleChoice_Swapped(s, choice) ==
    LET room == getCurrentRoom(s)
    IN  IF room = nullptr \/ ~RoomAt(s, room).isChoiceRoom THEN s
        ELSE LET s1 == IF choice = 1
                       THEN [s EXCEPT !.playerLogic[1] = heal(@, PotionHeal)]
                       ELSE [s EXCEPT !.playerLogic[1] = collectItem(@, "Golden Key")]
             IN  [s1 EXCEPT !.dungeonLogic[1].rooms[room].isChoiceRoom = FALSE,
                            !.currentState = "EXPLORING"]

handleChoice(s, choice) ==
    LET room == getCurrentRoom(s)
    IN  IF room = nullptr \/ ~RoomAt(s, room).isChoiceRoom THEN s
        ELSE LET s1 == IF choice = 1
                       THEN [s EXCEPT !.playerLogic[1] = collectItem(@, "Golden Key")]
                       ELSE [s EXCEPT !.playerLogic[1] = heal(@, PotionHeal)]
             IN  [s1 EXCEPT !.dungeonLogic[1].rooms[room].isChoiceRoom = FALSE,
                            !.currentState = "EXPLORING"]

collectSword_KeepsEntity(s, room) ==
    [s EXCEPT !.playerLogic[1] = collectItem(@, "Sword"),
              !.currentState = "EXPLORING"]

\* the lambda of the [C] key: it captured the room it was pressed in
collectSword(s, room) ==
    [s EXCEPT !.playerLogic[1] = collectItem(@, "Sword"),
              !.dungeonLogic[1].rooms[room].entity = NoEntity,
              !.currentState = "EXPLORING"]

\* onTransitionComplete(): the body of the lambda that was stored
invoke(s, callback) ==
    CASE callback.op = "moveForward" -> moveForward(s)
      [] callback.op = "moveBack" -> moveBack(s)
      [] callback.op = "collect" -> collectSword(s, callback.arg)
      [] callback.op = "handleCombat" -> handleCombat(s)
      [] callback.op = "handleChoice" -> handleChoice(s, callback.arg)
      [] callback.op = "continue" -> [s EXCEPT !.currentState = "EXPLORING"]
      [] OTHER -> s

inSwordRoomWithSword(s) ==
    LET room == getCurrentRoom(s)
    IN  /\ room # nullptr
        /\ RoomAt(s, room).entity # NoEntity
        /\ RoomAt(s, room).entity.kind = "Weapon"
        /\ RoomAt(s, room).name = SwordRoomName

navigate_NoGuard(s, canMove, op) ==
    IF canMove
    THEN startTransition(s, Callback(op, 0))
    ELSE s

navigate_LateGuard(s, canMove, op) ==
    IF s.playerLogic[1].moves < 0
    THEN triggerGameOver(s, ReasonMoves)
    ELSE IF canMove
    THEN startTransition(s, Callback(op, 0))
    ELSE s

navigate_NoTargetCheck(s, canMove, op) ==
    IF s.playerLogic[1].moves <= 0
    THEN triggerGameOver(s, ReasonMoves)
    ELSE startTransition(s, Callback(op, 0))

\* The guard of the [F] and [B] keys in EXPLORING: out of moves ends the run,
\* else the move is deferred to the end of the fade-out when it has a target
navigate(s, canMove, op) ==
    IF s.playerLogic[1].moves <= 0
    THEN triggerGameOver(s, ReasonMoves)
    ELSE IF canMove
    THEN startTransition(s, Callback(op, 0))
    ELSE s

exploringKey_QuitAnywhere(s, code) ==
    IF code = "F"
    THEN navigate(s, canMoveForward(s.dungeonLogic[1]), "moveForward")
    ELSE IF code = "B"
    THEN navigate(s, canMoveBack(s.dungeonLogic[1]), "moveBack")
    ELSE IF code = "C"
    THEN IF inSwordRoomWithSword(s)
         THEN startTransition(s, Callback("collect", getCurrentRoom(s)))
         ELSE s
    ELSE IF code = "Q"
    THEN changeScreen(s, "MENU")
    ELSE s

exploringKey(s, code) ==
    IF code = "F"
    THEN navigate(s, canMoveForward(s.dungeonLogic[1]), "moveForward")
    ELSE IF code = "B"
    THEN navigate(s, canMoveBack(s.dungeonLogic[1]), "moveBack")
    ELSE IF code = "C"
    THEN IF inSwordRoomWithSword(s)
         THEN startTransition(s, Callback("collect", getCurrentRoom(s)))
         ELSE s
    ELSE IF code = "Q"
    THEN IF ~inSwordRoomWithSword(s) THEN changeScreen(s, "MENU") ELSE s
    ELSE s

combatKey_Back(s, code) ==
    IF code = "F"
    THEN startTransition(s, Callback("handleCombat", 0))
    ELSE IF code = "R"
    THEN triggerGameOver(s, ReasonFled)
    ELSE IF code = "B"
    THEN startTransition(s, Callback("moveBack", 0))
    ELSE s

combatKey_FleeEscapes(s, code) ==
    IF code = "F"
    THEN startTransition(s, Callback("handleCombat", 0))
    ELSE IF code = "R"
    THEN [s EXCEPT !.currentState = "EXPLORING"]
    ELSE s

combatKey(s, code) ==
    IF code = "F"
    THEN startTransition(s, Callback("handleCombat", 0))
    ELSE IF code = "R"
    THEN triggerGameOver(s, ReasonFled)
    ELSE s

choiceKey(s, code) ==
    IF code \in {"Num1", "Numpad1"}
    THEN startTransition(s, Callback("handleChoice", 1))
    ELSE IF code \in {"Num2", "Numpad2"}
    THEN startTransition(s, Callback("handleChoice", 2))
    ELSE s

messageKey(s, code) ==
    IF code = "Enter"
    THEN startTransition(s, Callback("continue", 0))
    ELSE s

GamePlayScreen_handleEvent_NoStates(s, event) ==
    IF event.type # "KeyPressed" THEN s
    ELSE IF s.transitionState # "NONE" THEN s
    ELSE exploringKey(s, event.code)

GamePlayScreen_handleEvent_NoPendingGuard(s, event) ==
    IF event.type # "KeyPressed" THEN s
    ELSE CASE s.currentState = "EXPLORING" -> exploringKey(s, event.code)
           [] s.currentState = "COMBAT" -> combatKey(s, event.code)
           [] s.currentState = "CHOICE" -> choiceKey(s, event.code)
           [] s.currentState = "MESSAGE" -> messageKey(s, event.code)

GamePlayScreen_handleEvent(s, event) ==
    IF event.type # "KeyPressed" THEN s
    ELSE IF s.transitionState # "NONE" THEN s
    ELSE CASE s.currentState = "EXPLORING" -> exploringKey(s, event.code)
           [] s.currentState = "COMBAT" -> combatKey(s, event.code)
           [] s.currentState = "CHOICE" -> choiceKey(s, event.code)
           [] s.currentState = "MESSAGE" -> messageKey(s, event.code)

\* The frame of GamePlayScreen::update in which the running fade reaches t >= 1
GamePlayScreen_update(s) ==
    IF s.transitionState = "FADING_OUT"
    THEN LET s1 == IF s.onTransitionComplete # NoCallback
                   THEN [invoke(s, s.onTransitionComplete) EXCEPT
                            !.onTransitionComplete = NoCallback]
                   ELSE s
         IN  IF s1.playerLogic[1].moves < 0
             THEN triggerGameOver(s1, ReasonMoves)
             ELSE [checkRoomState(s1) EXCEPT !.transitionState = "FADING_IN"]
    ELSE IF s.transitionState = "FADING_IN"
    THEN [s EXCEPT !.transitionState = "NONE"]
    ELSE s

GamePlayScreen_onEnter(s) == checkRoomState(s)

-----------------------------------------------------------------------------
(* The other screens *)

MenuScreen_handleEvent(s, event) ==
    IF event.type = "KeyPressed" /\ event.code = "Enter"
    THEN changeScreen(s, "NAME_INPUT")
    ELSE s

GameOverScreen_handleEvent(s, event) ==
    IF event.type = "KeyPressed" /\ event.code = "Enter"
    THEN changeScreen(s, "MENU")
    ELSE s

startGameplay_MoreMoves(s) ==
    changeScreen([s EXCEPT
                    !.playerLogic = << Player(s.playerName, StartHealth, StartMoves + 2) >>,
                    !.dungeonLogic = << setupDungeon(Dungeon) >>,
                    !.currentState = "EXPLORING",
                    !.transitionState = "NONE",
                    !.onTransitionComplete = NoCallback,
                    !.emitted = 0],
                 "GAMEPLAY")

startGameplay(s) ==
    changeScreen([s EXCEPT
                    !.playerLogic = << Player(s.playerName, StartHealth, StartMoves) >>,
                    !.dungeonLogic = << setupDungeon(Dungeon) >>,
                    !.currentState = "EXPLORING",
                    !.transitionState = "NONE",
                    !.onTransitionComplete = NoCallback,
                    !.emitted = 0],
                 "GAMEPLAY")

NameInputScreen_handleEvent(s, event) ==
    IF ~s.isActive THEN s
    ELSE IF event.type = "TextEntered"
    THEN IF event.unicode = 8
         THEN IF s.playerName # 0 THEN [s EXCEPT !.playerName = @ - 1] ELSE s
         ELSE IF event.unicode >= 32 /\ event.unicode < 127
         THEN IF s.playerName < MAX_NAME_LENGTH
              THEN [s EXCEPT !.playerName = @ + 1]
              ELSE s
         ELSE s
    ELSE IF event.type = "KeyPressed"
    THEN IF event.code = "Enter" /\ s.playerName # 0
         THEN startGameplay([s EXCEPT !.isActive = FALSE])
         ELSE IF event.code = "Escape"
         THEN changeScreen(s, "MENU")
         ELSE s
    ELSE s

NameInputScreen_onEnter(s) == [s EXCEPT !.playerName = 0, !.isActive = TRUE]

-----------------------------------------------------------------------------
(* Game: the event loop *)

onEnter(s) ==
    CASE s.currentStateID = "NAME_INPUT" -> NameInputScreen_onEnter(s)
      [] s.currentStateID = "GAMEPLAY" -> GamePlayScreen_onEnter(s)
      [] OTHER -> s

\* the current screen's handleEvent
handleEvent(s, event) ==
    CASE s.currentStateID = "MENU" -> MenuScreen_handleEvent(s, event)
      [] s.currentStateID = "NAME_INPUT" -> NameInputScreen_handleEvent(s, event)
      [] s.currentStateID = "GAMEPLAY" -> GamePlayScreen_handleEvent(s, event)
      [] s.currentStateID = "GAME_OVER" -> GameOverScreen_handleEvent(s, event)

processEvents(s, event) ==
    IF s.currentTransition = "NONE" THEN handleEvent(s, event) ELSE s

\* The frame of Game::handleScreenTransition in which the screen fade reaches t >= 1
handleScreenTransition(s) ==
    IF s.currentTransition = "NONE" THEN s
    ELSE IF s.currentTransition = "FADING_OUT"
    THEN [onEnter([s EXCEPT !.currentStateID = s.nextStateID]) EXCEPT
              !.currentTransition = "FADING_IN"]
    ELSE [s EXCEPT !.currentTransition = "NONE"]

KeyCodes == {"F", "B", "C", "Q", "R", "Num1", "Numpad1", "Num2", "Numpad2",
             "Enter", "Escape", "A"}
\* backspace, the characters at both ends of the printable range, and its neighbours
Unicodes == {8, 31, 32, 126, 127}

\* sf::Event: key.code is read of a KeyPressed event, text.unicode of a TextEntered one
KeyPressed(k) == [type |-> "KeyPressed", code |-> k, unicode |-> 0]
TextEntered(u) == [type |-> "TextEntered", code |-> "", unicode |-> u]
NoEvent == [type |-> "None", code |-> "", unicode |-> 0]

\* lastEvent records the events that Game::processEvents hands to the gameplay screen
Delivered(event) ==
    IF currentTransition = "NONE" /\ currentStateID = "GAMEPLAY" THEN event ELSE NoEvent

Init ==
    /\ currentStateID = "MENU"
    /\ nextStateID = "NONE"
    /\ currentTransition = "NONE"
    /\ playerName = 0
    /\ isActive = TRUE
    /\ playerLogic = << >>
    /\ dungeonLogic = << >>
    /\ gameOverReason = NoReason
    /\ currentState = "EXPLORING"
    /\ transitionState = "NONE"
    /\ onTransitionComplete = NoCallback
    /\ emitted = 0
    /\ lastEvent = NoEvent

\* Game::processEvents polls a key press
PollKey ==
    \E k \in KeyCodes :
        /\ Becomes(processEvents(State, KeyPressed(k)))
        /\ lastEvent' = Delivered(KeyPressed(k))

\* Game::processEvents polls entered text
PollText ==
    \E u \in Unicodes :
        /\ (u >= 32 /\ u < 127) => playerName < MaxTyped
        /\ Becomes(processEvents(State, TextEntered(u)))
        /\ lastEvent' = Delivered(TextEntered(u))

\* Game::update, the current screen's part: a gameplay fade ends in this frame
UpdateScreen ==
    /\ currentTransition = "NONE"
    /\ currentStateID = "GAMEPLAY"
    /\ transitionState # "NONE"
    /\ Becomes(GamePlayScreen_update(State))
    /\ lastEvent' = NoEvent

\* Game::update, the screen transition's part: a screen fade ends in this frame
UpdateTransition ==
    /\ currentTransition # "NONE"
    /\ Becomes(handleScreenTransition(State))
    /\ lastEvent' = NoEvent

Next == PollKey \/ PollText \/ UpdateScreen \/ UpdateTransition

Spec == Init /\ [][Next]_vars

-----------------------------------------------------------------------------
(* Rooms the fixed dungeon does not have.  checkRoomState reads only the     *)
(* current room and the player, so what it does with a final door that also  *)
(* holds an entity or a choice flag, or with a player who holds the key and  *)
(* has not beaten the boss, is checked on runs that start one step before    *)
(* such a door.                                                              *)

DoorEntities == {NoEntity, MinionEnemy("Wizard", WizardDamage),
                 BossEnemy("Final Boss", BossDamage), Weapon("Sword"),
                 Potion("Health Potion"), Key("Golden Key")}
DoorNames == {"The Final Door", SwordRoomName}
DoorInventories == {<< >>, <<"Sword">>, <<"Golden Key">>, <<"Sword", "Golden Key">>}

doorDungeon(n, e, choice) ==
    addRooms(Dungeon, << Room("Dungeon Entrance"),
                         [Room(n) EXCEPT !.entity = e, !.isChoiceRoom = choice,
                                         !.isFinalDoor = TRUE] >>)

InitDoor ==
    /\ currentStateID = "GAMEPLAY"
    /\ nextStateID = "GAMEPLAY"
    /\ currentTransition = "NONE"
    /\ playerName = 1
    /\ isActive = FALSE
    /\ \E inv \in DoorInventories, boss \in BOOLEAN, h \in {StartHealth - BossDamage, StartHealth} :
          playerLogic = << [Player(1, h, StartMoves) EXCEPT
                                !.inventory = inv, !.finalBossDefeated = boss] >>
    /\ \E n \in DoorNames, e \in DoorEntities, choice \in BOOLEAN :
          dungeonLogic = << doorDungeon(n, e, choice) >>
    /\ gameOverReason = NoReason
    /\ currentState = "EXPLORING"
    /\ transitionState = "NONE"
    /\ onTransitionComplete = NoCallback
    /\ emitted = 0
    /\ lastEvent = NoEvent

SpecDoor == (Init \/ InitDoor) /\ [][Next]_vars

-----------------------------------------------------------------------------
(* The screens with names of every length: text is typed without the bound  *)
(* MaxTyped, so the name input screen's own limit is what stops a name, and *)
(* the player of a run presses no key but [Q] once MaxPlayed moves are      *)
(* used, which keeps the runs short.                                        *)

MaxPlayed == 2

PollTextFreely ==
    \E u \in Unicodes :
        /\ Becomes(processEvents(State, TextEntered(u)))
        /\ lastEvent' = Delivered(TextEntered(u))

PollKeyBriefly ==
    \E k \in KeyCodes :
        /\ (currentStateID = "GAMEPLAY" /\ k # "Q") =>
               playerLogic[1].moves > StartMoves - MaxPlayed
        /\ Becomes(processEvents(State, KeyPressed(k)))
        /\ lastEvent' = Delivered(KeyPressed(k))

NextNames == PollKeyBriefly \/ PollTextFreely \/ UpdateScreen \/ UpdateTransition

SpecNames == Init /\ [][NextNames]_vars

-----------------------------------------------------------------------------
(* Rooms between the entrance and the final door that the fixed dungeon     *)
(* does not have: any entity kind in a room of either name, with or without *)
(* the choice flag, met by players of several healths, moves, inventories.  *)

MiddleNames == {"Room of Choice", SwordRoomName}
MiddleMoves == {1, 4}

roomsDungeon(n, e, choice) ==
    addRooms(Dungeon, << Room("Dungeon Entrance"),
                         [Room(n) EXCEPT !.entity = e, !.isChoiceRoom = choice],
                         [Room("The Final Door") EXCEPT !.isFinalDoor = TRUE] >>)

InitRooms ==
    /\ currentStateID = "GAMEPLAY"
    /\ nextStateID = "GAMEPLAY"
    /\ currentTransition = "NONE"
    /\ playerName = 1
    /\ isActive = FALSE
    /\ \E inv \in DoorInventories, m \in MiddleMoves,
          h \in {StartHealth - BossDamage, StartHealth} :
          playerLogic = << [Player(1, h, m) EXCEPT !.inventory = inv] >>
    /\ \E n \in MiddleNames, e \in DoorEntities, choice \in BOOLEAN :
          dungeonLogic = << roomsDungeon(n, e, choice) >>
    /\ gameOverReason = NoReason
    /\ currentState = "EXPLORING"
    /\ transitionState = "NONE"
    /\ onTransitionComplete = NoCallback
    /\ emitted = 0
    /\ lastEvent = NoEvent

SpecRooms == (Init \/ InitRooms) /\ [][Next]_vars

\* the fixed dungeon, the middle rooms and the doors together
SpecWorlds == (Init \/ InitRooms \/ InitDoor) /\ [][Next]_vars

-----------------------------------------------------------------------------
(* The Dungeon and its Stack called directly, without the gameplay screen   *)
(* in front of them: the calls are made on the fixed dungeon with whatever  *)
(* value of moves, position and tracker the calls before have left.         *)

\* bound of the model: how far below zero the calls may take moves
MaxDebt == 3

DirectMoves == {0, 1, StartMoves}

\* lastEvent records the call made and what top returned or threw
Call(op) == [type |-> "Call", code |-> op, unicode |-> 0]
Returned(op, v) == [type |-> "Return", code |-> op, unicode |-> v]
Thrown(e) == [type |-> "Throw", code |-> e.throw, unicode |-> 0]

InitDungeon ==
    /\ currentStateID = "GAMEPLAY"
    /\ nextStateID = "GAMEPLAY"
    /\ currentTransition = "NONE"
    /\ playerName = 1
    /\ isActive = FALSE
    /\ \E inv \in DoorInventories, boss \in BOOLEAN, m \in DirectMoves :
          playerLogic = << [Player(1, StartHealth, m) EXCEPT
                                !.inventory = inv, !.finalBossDefeated = boss] >>
    /\ dungeonLogic = << setupDungeon(Dungeon) >>
    /\ gameOverReason = NoReason
    /\ currentState = "EXPLORING"
    /\ transitionState = "NONE"
    /\ onTransitionComplete = NoCallback
    /\ emitted = 0
    /\ lastEvent = NoEvent

CallMoveForward ==
    /\ playerLogic[1].moves > -MaxDebt
    /\ Becomes(moveForward(State))
    /\ lastEvent' = Call("moveForward")

CallMoveBack ==
    /\ playerLogic[1].moves > -MaxDebt
    /\ Becomes(moveBack(State))
    /\ lastEvent' = Call("moveBack")

CallPop ==
    /\ Becomes([State EXCEPT !.dungeonLogic[1].path_tracker = pop(@)])
    /\ lastEvent' = Call("pop")

CallTop ==
    LET r == top(dungeonLogic[1].path_tracker)
    IN  /\ Becomes(State)
        /\ lastEvent' = IF "throw" \in DOMAIN r THEN Thrown(r) ELSE Returned("top", r.value)

NextDungeon == CallMoveForward \/ CallMoveBack \/ CallPop \/ CallTop

SpecDungeon == InitDungeon /\ [][NextDungeon]_vars

-----------------------------------------------------------------------------
(* Vocabulary of the properties *)

InSession == playerLogic # << >> /\ dungeonLogic # << >>
ThePlayer == playerLogic[1]
TheDungeon == dungeonLogic[1]
CurRoom == TheDungeon.rooms[TheDungeon.currentRoom]
Holds(item) == \E i \in DOMAIN ThePlayer.inventory : ThePlayer.inventory[i] = item

\* the gameplay screen is shown and no screen fade is running: events reach it
Accepting == currentStateID = "GAMEPLAY" /\ currentTransition = "NONE"
\* the run is on its way to, or has reached, the game over screen
Leaving == currentStateID = "GAMEPLAY" => (currentTransition = "FADING_OUT"
                                            /\ nextStateID = "GAME_OVER")
LossReasons == {ReasonBoss, ReasonKey, ReasonMoves, ReasonDied, ReasonFled}

\* a frame in which the deferred callback op runs (the fade-out of a command ends)
Resolves(op) ==
    /\ Accepting
    /\ transitionState = "FADING_OUT"
    /\ onTransitionComplete.op = op
    /\ onTransitionComplete' = NoCallback

\* the gameplay screen has just been handed this key press
Pressed(codes) == lastEvent'.type = "KeyPressed" /\ lastEvent'.code \in codes

engine == << currentStateID, nextStateID, currentTransition, playerName, isActive,
             playerLogic, dungeonLogic, gameOverReason, currentState,
             transitionState, onTransitionComplete, emitted >>

-----------------------------------------------------------------------------
(* C1: whenever the cursor is on the final door the run has ended, with the  *)
(* outcome WIN exactly when the inventory holds the Golden Key and the boss  *)
(* is defeated, and a LOSS of the final door otherwise, whatever entity or   *)
(* choice flag the door room has.                                            *)
C1_FinalDoorEndsRun ==
    (InSession /\ CurRoom.isFinalDoor) =>
        /\ emitted = 1
        /\ Leaving
        /\ gameOverReason \in {ReasonWin, ReasonBoss, ReasonKey}
        /\ gameOverReason = ReasonWin <=>
               (Holds("Golden Key") /\ ThePlayer.finalBossDefeated)

\* the fixed dungeon was walked straight through and won
C1_Witness ==
    /\ InSession
    /\ Len(TheDungeon.rooms) = 9
    /\ CurRoom.isFinalDoor
    /\ gameOverReason = ReasonWin
    /\ emitted = 1
    /\ ThePlayer.moves = 2
    /\ currentStateID = "GAME_OVER"

\* the door also holds an enemy and a choice flag; key held, boss not beaten
C1_WitnessPrecedence ==
    /\ InSession
    /\ CurRoom.isFinalDoor
    /\ IsEnemy(CurRoom.entity)
    /\ CurRoom.isChoiceRoom
    /\ gameOverReason = ReasonBoss
    /\ emitted = 1
    /\ currentState = "EXPLORING"
    /\ currentStateID = "GAME_OVER"

C1_WitnessLoss ==
    /\ InSession
    /\ CurRoom.isFinalDoor
    /\ gameOverReason = ReasonKey
    /\ ThePlayer.finalBossDefeated

(* C2: the player's health is always between 0 and 100.                      *)
C2_HealthInRange ==
    InSession => (ThePlayer.health >= 0 /\ ThePlayer.health <= 100)

\* a hit larger than the health left was taken and clamped
C2_Witness ==
    /\ InSession
    /\ ThePlayer.health = 0
    /\ gameOverReason = ReasonDied
    /\ emitted = 1

\* the potion of the choice room was drunk at health below 100
C2_WitnessHeal ==
    /\ InSession
    /\ ThePlayer.health = 100
    /\ \E r \in DOMAIN TheDungeon.rooms :
            TheDungeon.rooms[r].name = "Room of Choice"
            /\ ~TheDungeon.rooms[r].isChoiceRoom
    /\ ~Holds("Golden Key")

(* C3: once moves is 0 or below the run can only be lost: no WIN is emitted  *)
(* with moves <= 0, and no fight, choice or collect command is taken then.   *)
C3_ExhaustionIsLoss ==
    (InSession /\ ThePlayer.moves <= 0) =>
        /\ ~(emitted > 0 /\ gameOverReason = ReasonWin)
        /\ onTransitionComplete.op \notin {"handleCombat", "handleChoice", "collect"}

C3_NoWinWithoutMoves ==
    (InSession /\ ThePlayer.moves <= 0) => ~(emitted > 0 /\ gameOverReason = ReasonWin)

-----------------------------------------------------------------------------
(* Fights *)

HoldsIn(p, item) == \E i \in DOMAIN p.inventory : p.inventory[i] = item

\* what a fight in the current room costs, as the documentation states it
FightDamage ==
    IF CurRoom.entity.kind = "BossEnemy"
    THEN IF Holds("Sword") THEN 50 ELSE 75
    ELSE CurRoom.entity.damage

\* nothing of the run changes any more (a new run starts from the name input)
RunFrozen ==
    currentStateID # "NAME_INPUT" =>
        UNCHANGED << playerLogic, dungeonLogic, currentState, emitted, gameOverReason >>

(* C4: a fight whose damage takes the health to 0 or below ends the run with *)
(* the loss "died in combat"; the enemy stays in its room, the boss flag is  *)
(* not set, and nothing of the run changes afterwards.                       *)
C4_DeathInCombat ==
    /\ [][(Resolves("handleCombat") /\ ThePlayer.health <= FightDamage) =>
            /\ ThePlayer'.health = 0
            /\ emitted' = emitted + 1
            /\ gameOverReason' = ReasonDied
            /\ currentTransition' = "FADING_OUT"
            /\ nextStateID' = "GAME_OVER"
            /\ dungeonLogic' = dungeonLogic
            /\ IsEnemy(CurRoom'.entity)
            /\ ThePlayer'.finalBossDefeated = ThePlayer.finalBossDefeated
            /\ currentState' # "MESSAGE"]_vars
    /\ [][(InSession /\ emitted > 0 /\ gameOverReason = ReasonDied) => RunFrozen]_vars

C4_Witness ==
    /\ InSession
    /\ emitted = 1
    /\ gameOverReason = ReasonDied
    /\ ThePlayer.health = 0
    /\ CurRoom.entity.kind = "BossEnemy"
    /\ ~ThePlayer.finalBossDefeated
    /\ currentStateID = "GAME_OVER"

(* C5: a fight takes 50 from the health when the enemy is the boss and the   *)
(* Sword is held, 75 when it is the boss and the Sword is not held, and the  *)
(* enemy's own damage for a minion; the boss flag is set by a fight exactly  *)
(* when the enemy is the boss and the health after the hit is above 0.       *)
C5_FightDamage ==
    [][Resolves("handleCombat") =>
        /\ ThePlayer'.health = (IF ThePlayer.health - FightDamage < 0
                                THEN 0 ELSE ThePlayer.health - FightDamage)
        /\ ThePlayer'.finalBossDefeated <=>
              (CurRoom.entity.kind = "BossEnemy" /\ ThePlayer'.health > 0)]_vars

\* the Sword was collected and the boss was fought: 60 - 50
C5_Witness ==
    /\ InSession
    /\ Holds("Sword")
    /\ ThePlayer.finalBossDefeated
    /\ ThePlayer.health = 10
    /\ \A r \in DOMAIN TheDungeon.rooms : ~IsEnemy(TheDungeon.rooms[r].entity)

\* the boss was fought without the Sword and survived: 90 - 75
C5_WitnessUnarmed ==
    /\ InSession
    /\ ~Holds("Sword")
    /\ ThePlayer.finalBossDefeated
    /\ ThePlayer.health = 15

-----------------------------------------------------------------------------
(* The choice room *)

ChoiceResolved == \A r \in DOMAIN TheDungeon.rooms : ~TheDungeon.rooms[r].isChoiceRoom

(* C6: resolving the choice gives exactly one reward: option 1 adds the      *)
(* Golden Key and leaves the health, option 2 sets the health to 100 and     *)
(* leaves the inventory; exactly one of "holds the Golden Key" and "health   *)
(* is 100" becomes true; the room's choice flag is false from then on, the   *)
(* state is never CHOICE again and no later step grants either reward.       *)
C6_ChoiceOnce ==
    /\ [][Resolves("handleChoice") =>
            LET keyNew == ~Holds("Golden Key") /\ HoldsIn(ThePlayer', "Golden Key")
                healNew == ThePlayer.health # 100 /\ ThePlayer'.health = 100
            IN  /\ CurRoom.isChoiceRoom
                /\ onTransitionComplete.arg = 1 =>
                      /\ ThePlayer'.inventory = Append(ThePlayer.inventory, "Golden Key")
                      /\ ThePlayer'.health = ThePlayer.health
                /\ onTransitionComplete.arg = 2 =>
                      /\ ThePlayer'.health = 100
                      /\ ThePlayer'.inventory = ThePlayer.inventory
                /\ keyNew # healNew
                /\ TheDungeon'.currentRoom = TheDungeon.currentRoom
                /\ ~CurRoom'.isChoiceRoom
                /\ currentState' = "EXPLORING"]_vars
    /\ [][(InSession /\ ChoiceResolved /\ currentStateID # "NAME_INPUT") =>
            /\ ChoiceResolved'
            /\ HoldsIn(ThePlayer', "Golden Key") <=> Holds("Golden Key")
            /\ ThePlayer'.health <= ThePlayer.health]_vars
    /\ [](InSession /\ ChoiceResolved => currentState # "CHOICE")

\* the key was taken, and the room of choice was left and entered again
C6_Witness ==
    /\ InSession
    /\ Accepting
    /\ ChoiceResolved
    /\ Holds("Golden Key")
    /\ CurRoom.name = "Room of Choice"
    /\ ThePlayer.moves < 5
    /\ currentState = "EXPLORING"
    /\ transitionState = "NONE"

(* C7: after a fight the player survives the interaction state is MESSAGE    *)
(* and the room's entity is cleared.                                         *)
C7_FightShowsMessage ==
    [][(Resolves("handleCombat") /\ ThePlayer.health > FightDamage) =>
            /\ CurRoom'.entity = NoEntity
            /\ currentState' = "MESSAGE"]_vars

-----------------------------------------------------------------------------
(* Keys and commands.  [F] is moveForward in EXPLORING and fight in COMBAT;  *)
(* [B] is moveBack; [C] collect; [R] flee; [1] and [2] choose; [Enter]       *)
(* continue.                                                                 *)

\* the gameplay screen takes commands: it is shown and no fade of its own runs
TakesCommands == InSession /\ Accepting /\ transitionState = "NONE"

\* a navigation key was pressed ([F] in COMBAT is the fight command)
NavigationPressed ==
    Pressed({"B"}) \/ (Pressed({"F"}) /\ currentState # "COMBAT")

\* the run ends with the loss "out of moves" and the move is not made
OutOfMovesLoss ==
    /\ emitted' = emitted + 1
    /\ gameOverReason' = ReasonMoves
    /\ currentTransition' = "FADING_OUT"
    /\ nextStateID' = "GAME_OVER"
    /\ transitionState' = "NONE"
    /\ onTransitionComplete' = NoCallback
    /\ UNCHANGED << playerLogic, dungeonLogic, currentState >>

C8_WitnessCombat ==
    /\ TakesCommands
    /\ ThePlayer.moves = 0
    /\ currentState = "COMBAT"
    /\ lastEvent = KeyPressed("B")
    /\ emitted = 0

\* the navigation key pressed has no target room
NoTargetPressed ==
    \/ Pressed({"B"}) /\ TheDungeon.path_tracker = << >>
    \/ Pressed({"F"}) /\ currentState # "COMBAT" /\ CurRoom.next = nullptr

(* C9 as stated: a navigation command without a target changes nothing and   *)
(* ends nothing, whatever the value of moves.                                *)
C9_IgnoredWhateverMoves ==
    [][(TakesCommands /\ NoTargetPressed) => UNCHANGED engine]_vars

(* C9: a navigation command without a target changes nothing and ends        *)
(* nothing as long as moves > 0.                                             *)
C9_IgnoredWithMovesLeft ==
    [][(TakesCommands /\ NoTargetPressed /\ ThePlayer.moves > 0) => UNCHANGED engine]_vars

\* [B] was pressed at the entrance with moves left, and the game goes on
C9_Witness ==
    /\ TakesCommands
    /\ lastEvent = KeyPressed("B")
    /\ TheDungeon.path_tracker = << >>
    /\ ThePlayer.moves > 0
    /\ ThePlayer.moves < StartMoves
    /\ emitted = 0

\* the key pressed is no command of the current interaction state
InvalidPressed ==
    \/ currentState = "EXPLORING"
          /\ Pressed({"R", "Num1", "Numpad1", "Num2", "Numpad2", "Enter"})
    \/ currentState = "EXPLORING" /\ Pressed({"C"})
          /\ ~(CurRoom.name = SwordRoomName /\ CurRoom.entity.kind = "Weapon")
    \/ currentState = "COMBAT"
          /\ Pressed({"B", "C", "Num1", "Numpad1", "Num2", "Numpad2", "Enter"})
    \/ currentState = "CHOICE" /\ Pressed({"F", "B", "C", "R", "Enter"})
    \/ currentState = "MESSAGE"
          /\ Pressed({"F", "B", "C", "R", "Num1", "Numpad1", "Num2", "Numpad2"})

(* C10: a key press that is no command of the current interaction state      *)
(* changes nothing of the game and does not end the run.                     *)
C10_InvalidIgnored ==
    [][(InSession /\ Accepting /\ InvalidPressed) => UNCHANGED engine]_vars

\* [B] was pressed in a fight, and the fight is still open
C10_Witness ==
    /\ TakesCommands
    /\ currentState = "COMBAT"
    /\ lastEvent = KeyPressed("B")
    /\ IsEnemy(CurRoom.entity)
    /\ emitted = 0

\* [C] was pressed in the weapon room after the Sword was taken
C10_WitnessCollect ==
    /\ TakesCommands
    /\ currentState = "EXPLORING"
    /\ lastEvent = KeyPressed("C")
    /\ CurRoom.name = SwordRoomName
    /\ Holds("Sword")
    /\ emitted = 0

\* [F] was pressed in the room of choice, and the choice is still open
C10_WitnessChoice ==
    /\ TakesCommands
    /\ currentState = "CHOICE"
    /\ lastEvent = KeyPressed("F")
    /\ emitted = 0

-----------------------------------------------------------------------------
(* C11: the flee key taken in COMBAT ends the run with the loss "fled in     *)
(* terror", whatever the enemy, health, moves and inventory; health, rooms,  *)
(* cursor and interaction state are left as they are, and nothing of the     *)
(* run changes afterwards, so the run never comes back to EXPLORING.         *)
C11_FleeIsLoss ==
    /\ [][(TakesCommands /\ currentState = "COMBAT" /\ Pressed({"R"})) =>
            /\ emitted' = emitted + 1
            /\ gameOverReason' = ReasonFled
            /\ currentTransition' = "FADING_OUT"
            /\ nextStateID' = "GAME_OVER"
            /\ UNCHANGED << playerLogic, dungeonLogic, currentState,
                            transitionState, onTransitionComplete >>]_vars
    /\ [][(InSession /\ emitted > 0 /\ gameOverReason = ReasonFled) => RunFrozen]_vars

\* the boss of the fixed dungeon was fled from, the Sword in hand
C11_Witness ==
    /\ InSession
    /\ emitted = 1
    /\ gameOverReason = ReasonFled
    /\ currentState = "COMBAT"
    /\ CurRoom.entity.kind = "BossEnemy"
    /\ Len(TheDungeon.rooms) = 9
    /\ Holds("Sword")
    /\ currentStateID = "GAME_OVER"

\* a minion in a room with the choice flag was fled from with no moves left
C11_WitnessNoMoves ==
    /\ InSession
    /\ emitted = 1
    /\ gameOverReason = ReasonFled
    /\ currentState = "COMBAT"
    /\ CurRoom.entity.kind = "MinionEnemy"
    /\ CurRoom.isChoiceRoom
    /\ ThePlayer.moves = 0
    /\ Holds("Golden Key")
    /\ currentStateID = "GAME_OVER"

-----------------------------------------------------------------------------
(* C12: in every state of a run the dungeon is the fixed sequence of nine    *)
(* rooms, linked in order and ending with the final door; the cursor is one  *)
(* of these rooms, never null and never past the final door, and so is       *)
(* every entry of the path tracker.                                          *)
C12_CursorInSequence ==
    InSession =>
        /\ Len(TheDungeon.rooms) = NumRooms
        /\ TheDungeon.head = 1
        /\ \A r \in 1..NumRooms :
              /\ TheDungeon.rooms[r].next = (IF r < NumRooms THEN r + 1 ELSE nullptr)
              /\ TheDungeon.rooms[r].isFinalDoor <=> (r = NumRooms)
        /\ TheDungeon.currentRoom \in 1..NumRooms
        /\ \A i \in DOMAIN TheDungeon.path_tracker :
              TheDungeon.path_tracker[i] \in 1..NumRooms

\* forward twice, back once, forward again: in the third room with six moves
C12_Witness ==
    /\ InSession
    /\ TheDungeon.currentRoom = 3
    /\ TheDungeon.path_tracker = << 2, 1 >>
    /\ ThePlayer.moves = 6

\* back at the entrance after a walk, the tracker empty again
C12_WitnessEntrance ==
    /\ InSession
    /\ TheDungeon.currentRoom = 1
    /\ TheDungeon.path_tracker = << >>
    /\ ThePlayer.moves = 0

-----------------------------------------------------------------------------
\* the frame in which a deferred moveForward or moveBack runs
ResolvesNavigation == Resolves("moveForward") \/ Resolves("moveBack")

(* C13: a step of a run takes exactly 1 from moves when it is a navigation   *)
(* being carried out, and that step moves the cursor; every other step       *)
(* (fight, flee, choose, collect, continue, any key press, ignored           *)
(* navigation) leaves moves and the cursor as they are.  So moves never      *)
(* increases.                                                                *)
C13_MovesPerNavigation ==
    [][(InSession /\ currentStateID # "NAME_INPUT") =>
          /\ ResolvesNavigation =>
                /\ ThePlayer'.moves = ThePlayer.moves - 1
                /\ TheDungeon'.currentRoom # TheDungeon.currentRoom
          /\ ~ResolvesNavigation =>
                /\ ThePlayer'.moves = ThePlayer.moves
                /\ TheDungeon'.currentRoom = TheDungeon.currentRoom]_vars

\* forward, fight, forward, fight, back: three navigations, two fights
C13_Witness ==
    /\ InSession
    /\ ThePlayer.moves = 7
    /\ ThePlayer.health = 75
    /\ TheDungeon.currentRoom = 2
    /\ TheDungeon.path_tracker = << 1 >>
    /\ transitionState = "NONE"

-----------------------------------------------------------------------------
(* The interaction state and the room *)

WeaponToCollect(room) == room.entity.kind = "Weapon" /\ room.name = SwordRoomName
FixedDungeon == Len(TheDungeon.rooms) = NumRooms

(* C14: while the gameplay screen takes commands the state is COMBAT exactly *)
(* when the current room holds an enemy, CHOICE only when the room holds no  *)
(* entity and its choice flag is set, and in the fixed dungeon always then;  *)
(* it is EXPLORING where the weapon room holds its weapon.  On every room    *)
(* entry the state is derived from the room entered, in the order final      *)
(* door (the run ends), weapon room with its weapon (EXPLORING, weapon       *)
(* kept), enemy (COMBAT), other item (taken at once, EXPLORING), choice      *)
(* flag (CHOICE), else EXPLORING.                                            *)
C14_StateFromRoom ==
    /\ [](TakesCommands =>
            /\ currentState = "COMBAT" <=> IsEnemy(CurRoom.entity)
            /\ currentState = "CHOICE" =>
                  (CurRoom.entity = NoEntity /\ CurRoom.isChoiceRoom)
            /\ (FixedDungeon /\ CurRoom.entity = NoEntity /\ CurRoom.isChoiceRoom) =>
                  currentState = "CHOICE"
            /\ WeaponToCollect(CurRoom) => currentState = "EXPLORING")
    /\ [][ResolvesNavigation =>
            LET room == TheDungeon.rooms[TheDungeon'.currentRoom]
                after == TheDungeon'.rooms[TheDungeon'.currentRoom]
            IN  IF room.isFinalDoor
                THEN /\ emitted' = emitted + 1
                     /\ gameOverReason' \in {ReasonWin, ReasonBoss, ReasonKey}
                     /\ currentState' = currentState
                     /\ after = room
                ELSE /\ emitted' = emitted
                     /\ IF WeaponToCollect(room)
                        THEN currentState' = "EXPLORING" /\ after = room
                        ELSE IF IsEnemy(room.entity)
                        THEN currentState' = "COMBAT" /\ after = room
                        ELSE IF room.entity # NoEntity
                        THEN /\ currentState' = "EXPLORING"
                             /\ after = [room EXCEPT !.entity = NoEntity]
                        ELSE IF room.isChoiceRoom
                        THEN currentState' = "CHOICE" /\ after = room
                        ELSE currentState' = "EXPLORING" /\ after = room]_vars

\* an enemy in a room with the choice flag: the fight comes first
C14_Witness ==
    /\ TakesCommands
    /\ currentState = "COMBAT"
    /\ IsEnemy(CurRoom.entity)
    /\ CurRoom.isChoiceRoom

\* the weapon room with its weapon and the choice flag: EXPLORING
C14_WitnessWeapon ==
    /\ TakesCommands
    /\ currentState = "EXPLORING"
    /\ WeaponToCollect(CurRoom)
    /\ CurRoom.isChoiceRoom

\* a key lying in a room with the choice flag was taken on entry: EXPLORING
C14_WitnessItem ==
    /\ TakesCommands
    /\ currentState = "EXPLORING"
    /\ CurRoom.entity = NoEntity
    /\ CurRoom.isChoiceRoom
    /\ TheDungeon.currentRoom = 2
    /\ ThePlayer.inventory = << "Golden Key" >>

\* the room of choice of the fixed dungeon
C14_WitnessChoice ==
    /\ TakesCommands
    /\ FixedDungeon
    /\ currentState = "CHOICE"
    /\ CurRoom.name = "Room of Choice"

-----------------------------------------------------------------------------
(* The weapon room *)

\* the position of the weapon room in the fixed dungeon
WeaponRoom == CHOOSE r \in DOMAIN TheDungeon.rooms : TheDungeon.rooms[r].name = SwordRoomName

(* C15: the Sword is never picked up by walking: a navigation into or out    *)
(* of the weapon room leaves the inventory and every room as they are, and   *)
(* entering the room with the weapon in it gives EXPLORING.  The inventory   *)
(* gains "Sword" exactly in the step that resolves a collect command; that   *)
(* command is resolved in the weapon room with the weapon still there, and   *)
(* it clears the room's entity.  So "Sword" is held exactly when the weapon  *)
(* room is empty.                                                            *)
C15_SwordOnlyByCollect ==
    /\ [][(ResolvesNavigation /\ WeaponRoom \in {TheDungeon.currentRoom,
                                                  TheDungeon'.currentRoom}) =>
            /\ ThePlayer'.inventory = ThePlayer.inventory
            /\ TheDungeon'.rooms = TheDungeon.rooms
            /\ (TheDungeon'.currentRoom = WeaponRoom
                   /\ WeaponToCollect(TheDungeon.rooms[WeaponRoom])) =>
                  currentState' = "EXPLORING"]_vars
    /\ [][(InSession /\ currentStateID # "NAME_INPUT") =>
            /\ (~Holds("Sword") /\ HoldsIn(ThePlayer', "Sword")) <=> Resolves("collect")
            /\ Resolves("collect") =>
                  /\ TheDungeon.currentRoom = WeaponRoom
                  /\ WeaponToCollect(CurRoom)
                  /\ ThePlayer'.inventory = Append(ThePlayer.inventory, "Sword")
                  /\ TheDungeon' = [TheDungeon EXCEPT !.rooms[WeaponRoom].entity = NoEntity]
                  /\ currentState' = "EXPLORING"]_vars
    /\ [](InSession => (Holds("Sword") <=> TheDungeon.rooms[WeaponRoom].entity = NoEntity))

\* the weapon room was entered, left for the room of choice and entered again
C15_Witness ==
    /\ TakesCommands
    /\ TheDungeon.currentRoom = WeaponRoom
    /\ WeaponToCollect(CurRoom)
    /\ ThePlayer.moves = 4
    /\ ThePlayer.inventory = << >>
    /\ currentState = "EXPLORING"

\* the Sword was collected, and the empty weapon room was entered again
C15_WitnessCollected ==
    /\ TakesCommands
    /\ TheDungeon.currentRoom = WeaponRoom
    /\ CurRoom.entity = NoEntity
    /\ ThePlayer.inventory = << "Sword" >>
    /\ ThePlayer.moves = 4

-----------------------------------------------------------------------------
(* C16: a run emits at most one outcome; once it is emitted the gameplay     *)
(* screen is being left for the game over screen, and no later step changes  *)
(* the player, the dungeon, the interaction state or the outcome of that     *)
(* run.                                                                      *)
C16_OutcomeOnce ==
    /\ [](emitted <= 1)
    /\ []((InSession /\ emitted = 1) => (Leaving /\ gameOverReason # NoReason))
    /\ [][(InSession /\ emitted > 0) => RunFrozen]_vars

\* a won run, seen from the menu after the game over screen was left
C16_Witness ==
    /\ InSession
    /\ emitted = 1
    /\ gameOverReason = ReasonWin
    /\ currentStateID = "MENU"
    /\ currentTransition = "NONE"
    /\ CurRoom.isFinalDoor
    /\ FixedDungeon

\* a run lost by death, the game over screen shown
C16_WitnessDied ==
    /\ InSession
    /\ emitted = 1
    /\ gameOverReason = ReasonDied
    /\ currentStateID = "GAME_OVER"
    /\ currentTransition = "NONE"
    /\ transitionState = "FADING_IN"

-----------------------------------------------------------------------------
\* the choice of this run was made and it was the potion (the fixed dungeon
\* gives the Golden Key nowhere else)
PotionChosen == InSession /\ FixedDungeon /\ ChoiceResolved /\ ~Holds("Golden Key")

(* C17: choosing the potion sets the health to 100 and leaves the inventory; *)
(* from then on the run never holds the Golden Key, and when it reaches the  *)
(* final door it ends with the loss "needed the Golden Key", not with the    *)
(* loss "the boss must be defeated" and not with a win.                      *)
C17_PotionRun ==
    /\ [][(Resolves("handleChoice") /\ onTransitionComplete.arg = 2) =>
            /\ ThePlayer'.health = 100
            /\ ThePlayer'.inventory = ThePlayer.inventory
            /\ PotionChosen']_vars
    /\ [][(PotionChosen /\ currentStateID # "NAME_INPUT") => PotionChosen']_vars
    /\ []((PotionChosen /\ CurRoom.isFinalDoor) =>
            (emitted = 1 /\ Leaving /\ gameOverReason = ReasonKey))
    /\ []((PotionChosen /\ emitted = 1) => gameOverReason \notin {ReasonWin, ReasonBoss})

\* potion, then the monster and the boss beaten, then the locked door
C17_Witness ==
    /\ PotionChosen
    /\ CurRoom.isFinalDoor
    /\ ThePlayer.finalBossDefeated
    /\ gameOverReason = ReasonKey
    /\ emitted = 1
    /\ currentStateID = "GAME_OVER"

\* the potion was drunk at health 70
C17_WitnessHealed ==
    /\ PotionChosen
    /\ TakesCommands
    /\ CurRoom.name = "Room of Choice"
    /\ ThePlayer.health = 100
    /\ ThePlayer.moves = 5

-----------------------------------------------------------------------------
\* the enemy of room r of the fixed dungeon has been beaten
Beaten(r) == TheDungeon.rooms[r].entity = NoEntity

(* C18: a run starts at the entrance with health 100 and moves 10; after     *)
(* one move forward and the Wizard's fight health is 90, after two and the   *)
(* Dragon's 75, and after three moves forward and the three fights (10, 15,  *)
(* 5, no weapon held) health is 70 and moves is 7, the player stands in the  *)
(* fourth room and no outcome has been emitted.                              *)
C18_ThreeMinions ==
    (InSession /\ FixedDungeon) =>
        /\ ThePlayer.moves = 10 =>
              (ThePlayer.health = 100 /\ TheDungeon.currentRoom = 1 /\ emitted = 0)
        /\ (ThePlayer.moves = 9 /\ Beaten(2)) => ThePlayer.health = 90
        /\ (ThePlayer.moves = 8 /\ Beaten(2) /\ Beaten(3)) => ThePlayer.health = 75
        /\ (ThePlayer.moves = 7 /\ Beaten(2) /\ Beaten(3) /\ Beaten(4)) =>
              /\ ThePlayer.health = 70
              /\ TheDungeon.currentRoom = 4
              /\ TheDungeon.path_tracker = << 3, 2, 1 >>
              /\ ThePlayer.inventory = << >>
              /\ emitted = 0

\* forward, fight, forward, fight, forward, fight: the Zombie's Crypt is clear
C18_Witness ==
    /\ TakesCommands
    /\ FixedDungeon
    /\ ThePlayer.moves = 7
    /\ Beaten(2)
    /\ Beaten(3)
    /\ Beaten(4)
    /\ ThePlayer.health = 70
    /\ CurRoom.name = "Zombie's Crypt"
    /\ currentState = "EXPLORING"

-----------------------------------------------------------------------------
(* C19: no enemy and no choice is walked past: every room before the cursor  *)
(* holds no enemy and has no choice flag.  So a run that wins has beaten     *)
(* all five enemies and made its choice.                                     *)
C19_NothingSkipped ==
    (InSession /\ FixedDungeon) =>
        /\ \A r \in 1..(TheDungeon.currentRoom - 1) :
              /\ ~IsEnemy(TheDungeon.rooms[r].entity)
              /\ ~TheDungeon.rooms[r].isChoiceRoom
        /\ (emitted = 1 /\ gameOverReason = ReasonWin) =>
              /\ \A r \in 1..NumRooms : ~IsEnemy(TheDungeon.rooms[r].entity)
              /\ ChoiceResolved

\* in front of the boss: four enemies beaten, the choice made, the Sword left
C19_Witness ==
    /\ TakesCommands
    /\ FixedDungeon
    /\ currentState = "COMBAT"
    /\ CurRoom.entity.kind = "BossEnemy"
    /\ WeaponToCollect(TheDungeon.rooms[WeaponRoom])
    /\ ChoiceResolved

\* a won run
C19_WitnessWin ==
    /\ InSession
    /\ FixedDungeon
    /\ emitted = 1
    /\ gameOverReason = ReasonWin
    /\ TheDungeon.currentRoom = NumRooms
    /\ currentTransition = "FADING_OUT"

-----------------------------------------------------------------------------
\* the run has ended with the win
Won == InSession /\ FixedDungeon /\ emitted = 1 /\ gameOverReason = ReasonWin

(* C20: once the potion is chosen the run never wins, and a run that wins    *)
(* holds the Golden Key and the Sword and ends with health exactly 10.       *)
C20_ChoiceDecidesWin ==
    /\ [][(PotionChosen /\ currentStateID # "NAME_INPUT") => (PotionChosen' /\ ~Won')]_vars
    /\ [](Won => /\ Holds("Golden Key")
                 /\ Holds("Sword")
                 /\ ThePlayer.health = 10
                 /\ ThePlayer.finalBossDefeated
                 /\ ~PotionChosen)

\* won on the last move: one detour, otherwise straight through
C20_Witness ==
    /\ Won
    /\ ThePlayer.moves = 0
    /\ ThePlayer.health = 10
    /\ Holds("Sword")
    /\ Holds("Golden Key")

\* the potion run that beat the boss unarmed stands at the door, locked out
C20_WitnessPotion ==
    /\ PotionChosen
    /\ ~Holds("Sword")
    /\ ThePlayer.finalBossDefeated
    /\ ThePlayer.health = 15
    /\ CurRoom.isFinalDoor
    /\ emitted = 1

-----------------------------------------------------------------------------
\* the frame in which a deferred command runs and leaves the screen in MESSAGE
CallbackShowsMessage ==
    /\ InSession
    /\ Accepting
    /\ transitionState = "FADING_OUT"
    /\ onTransitionComplete # NoCallback
    /\ onTransitionComplete' = NoCallback
    /\ invoke(State, onTransitionComplete).currentState = "MESSAGE"

(* C21: MESSAGE is left by the continue command only: the continue command   *)
(* taken in MESSAGE gives EXPLORING and leaves player and dungeon as they    *)
(* are, every other key taken in MESSAGE changes nothing, and the MESSAGE    *)
(* that a command's resolution sets is the state when that frame ends.       *)
C21_ContinueLeavesMessage ==
    /\ [][(TakesCommands /\ currentState = "MESSAGE" /\ ~Pressed({"Enter"})) =>
            UNCHANGED engine]_vars
    /\ [][(InSession /\ Accepting /\ currentState = "MESSAGE"
              /\ currentState' # "MESSAGE") =>
            /\ Resolves("continue")
            /\ currentState' = "EXPLORING"
            /\ UNCHANGED << playerLogic, dungeonLogic >>]_vars
    /\ [][CallbackShowsMessage => currentState' = "MESSAGE"]_vars

-----------------------------------------------------------------------------
(* The Dungeon's operations *)

Called(op) == lastEvent'.type = "Call" /\ lastEvent'.code = op

\* what a call of the Dungeon never touches
DungeonFrame ==
    /\ ThePlayer'.health = ThePlayer.health
    /\ ThePlayer'.inventory = ThePlayer.inventory
    /\ ThePlayer'.finalBossDefeated = ThePlayer.finalBossDefeated
    /\ TheDungeon'.rooms = TheDungeon.rooms
    /\ TheDungeon'.head = TheDungeon.head

(* C22: moveForward with a successor pushes the current room on the tracker  *)
(* and puts the cursor on the successor; moveBack with a non-empty tracker   *)
(* puts the cursor on the tracker's top and pops it.  Without successor, or  *)
(* with the tracker empty, cursor, tracker and moves stay as they are.       *)
(* Health, inventory, the boss flag and the rooms are never changed.         *)
C22_NavigationEffect ==
    /\ [][Called("moveForward") =>
            /\ DungeonFrame
            /\ IF CurRoom.next # nullptr
               THEN /\ TheDungeon'.currentRoom = CurRoom.next
                    /\ TheDungeon'.path_tracker =
                           << TheDungeon.currentRoom >> \o TheDungeon.path_tracker
                    /\ ThePlayer'.moves = ThePlayer.moves - 1
               ELSE UNCHANGED << playerLogic, dungeonLogic >>]_vars
    /\ [][Called("moveBack") =>
            /\ DungeonFrame
            /\ IF TheDungeon.path_tracker # << >>
               THEN /\ TheDungeon'.currentRoom = TheDungeon.path_tracker[1]
                    /\ TheDungeon'.path_tracker = Tail(TheDungeon.path_tracker)
                    /\ ThePlayer'.moves = ThePlayer.moves - 1
               ELSE UNCHANGED << playerLogic, dungeonLogic >>]_vars

\* four calls of moveForward from the entrance
C22_Witness ==
    /\ lastEvent = Call("moveForward")
    /\ TheDungeon.currentRoom = 5
    /\ TheDungeon.path_tracker = << 4, 3, 2, 1 >>
    /\ ThePlayer.moves = 6

\* moveForward called on the last room, after the tracker was popped empty
C22_WitnessNoSuccessor ==
    /\ lastEvent = Call("moveForward")
    /\ TheDungeon.currentRoom = NumRooms
    /\ TheDungeon.path_tracker = << >>

\* moveBack called at the entrance before any move
C22_WitnessNoTracker ==
    /\ lastEvent = Call("moveBack")
    /\ TheDungeon.currentRoom = 1
    /\ TheDungeon.path_tracker = << >>
    /\ ThePlayer.moves = StartMoves

\* moveBack took the cursor to the tracker's top
C22_WitnessBack ==
    /\ lastEvent = Call("moveBack")
    /\ TheDungeon.currentRoom = 2
    /\ TheDungeon.path_tracker = << 1 >>
    /\ ThePlayer.moves = 7

(* C23: the Dungeon does not look at moves: moveForward with a successor and *)
(* moveBack with a non-empty tracker move the cursor and take one move also  *)
(* when moves is 0 or below, which leaves moves negative.                    *)
C23_NotGatedByMoves ==
    /\ [][(Called("moveForward") /\ CurRoom.next # nullptr /\ ThePlayer.moves <= 0) =>
            /\ TheDungeon'.currentRoom = CurRoom.next
            /\ ThePlayer'.moves = ThePlayer.moves - 1
            /\ ThePlayer'.moves < 0]_vars
    /\ [][(Called("moveBack") /\ TheDungeon.path_tracker # << >>
              /\ ThePlayer.moves <= 0) =>
            /\ TheDungeon'.currentRoom = TheDungeon.path_tracker[1]
            /\ ThePlayer'.moves = ThePlayer.moves - 1
            /\ ThePlayer'.moves < 0]_vars

\* two calls of moveForward with moves 0 at the start
C23_Witness ==
    /\ lastEvent = Call("moveForward")
    /\ TheDungeon.currentRoom = 3
    /\ TheDungeon.path_tracker = << 2, 1 >>
    /\ ThePlayer.moves = -2

\* forward and back again with moves 0 at the start
C23_WitnessBack ==
    /\ lastEvent = Call("moveBack")
    /\ TheDungeon.currentRoom = 1
    /\ TheDungeon.path_tracker = << >>
    /\ ThePlayer.moves = -2

-----------------------------------------------------------------------------
(* The path tracker's stack *)

CalledTop == lastEvent'.type \in {"Return", "Throw"}
TrackerEmpty == TheDungeon.path_tracker = << >>

(* C24 as stated: on an empty tracker pop and top leave the stack empty and  *)
(* raise no error.                                                           *)
C24_EmptyCallsAreNoOps ==
    [][(TrackerEmpty /\ (Called("pop") \/ CalledTop)) =>
            /\ TheDungeon'.path_tracker = << >>
            /\ lastEvent'.type # "Throw"]_vars

(* C24: on an empty tracker pop changes nothing and raises no error; top     *)
(* changes nothing either and throws the runtime_error "Stack is empty.".    *)
(* On a tracker that is not empty top returns the room pushed last.          *)
C24_PopNoOpTopThrows ==
    /\ [][(TrackerEmpty /\ Called("pop")) => UNCHANGED engine]_vars
    /\ [][(TrackerEmpty /\ CalledTop) =>
            /\ UNCHANGED engine
            /\ lastEvent' = Thrown(runtime_error("Stack is empty."))]_vars
    /\ [][(~TrackerEmpty /\ CalledTop) =>
            /\ UNCHANGED engine
            /\ lastEvent' = Returned("top", TheDungeon.path_tracker[1])]_vars

\* top was called on the empty tracker and threw
C24_Witness ==
    /\ TrackerEmpty
    /\ lastEvent.type = "Throw"
    /\ lastEvent.code = "Stack is empty."

\* pop was called on the empty tracker, before any move
C24_WitnessPop ==
    /\ TrackerEmpty
    /\ lastEvent = Call("pop")
    /\ ThePlayer.moves = StartMoves

-----------------------------------------------------------------------------
(* The inventory *)

ItemNames == {"Sword", "Golden Key", "Health Potion"}

\* the step of the name input screen that builds a new run
StartsRun ==
    /\ currentStateID = "NAME_INPUT"
    /\ currentTransition = "NONE"
    /\ currentTransition' = "FADING_OUT"
    /\ nextStateID' = "GAMEPLAY"

(* C25: a run starts with the inventory empty, and a step of the run either  *)
(* leaves the inventory or adds one name at its end.  With a name added,     *)
(* has is true of it; has becomes true of a name only by that name being     *)
(* added; once true of a name it stays true; the size never decreases.       *)
C25_ItemsPermanent ==
    /\ [][StartsRun => (\A x \in ItemNames : ~hasItem(ThePlayer', x))]_vars
    /\ [][(InSession /\ currentStateID # "NAME_INPUT") =>
            /\ \/ ThePlayer'.inventory = ThePlayer.inventory
               \/ \E x \in ItemNames :
                     ThePlayer'.inventory = Append(ThePlayer.inventory, x)
            /\ Len(ThePlayer'.inventory) >= Len(ThePlayer.inventory)
            /\ \A x \in ItemNames :
                  /\ hasItem(ThePlayer, x) => hasItem(ThePlayer', x)
                  /\ ThePlayer'.inventory = Append(ThePlayer.inventory, x) =>
                        hasItem(ThePlayer', x)
                  /\ (~hasItem(ThePlayer, x) /\ hasItem(ThePlayer', x)) =>
                        ThePlayer'.inventory = Append(ThePlayer.inventory, x)]_vars

\* Sword, then Golden Key, then the monster and the boss fought: both still held
C25_Witness ==
    /\ InSession
    /\ FixedDungeon
    /\ ThePlayer.inventory = << "Sword", "Golden Key" >>
    /\ ThePlayer.finalBossDefeated
    /\ TakesCommands

\* a Sword lying in a room was added to an inventory that held the key
C25_WitnessItem ==
    /\ InSession
    /\ ThePlayer.inventory = << "Golden Key", "Sword" >>
    /\ TheDungeon.currentRoom = 2
    /\ CurRoom.name = "Room of Choice"
    /\ TakesCommands

NoDuplicates(items) ==
    \A i, j \in DOMAIN items : items[i] = items[j] => i = j

(* C26: in every state of a run of the nine-room dungeon the inventory holds *)
(* no name twice and holds no name but "Sword" and "Golden Key".             *)
C26_NoDuplicateItems ==
    (InSession /\ FixedDungeon) =>
        /\ NoDuplicates(ThePlayer.inventory)
        /\ \A i \in DOMAIN ThePlayer.inventory :
               ThePlayer.inventory[i] \in {"Sword", "Golden Key"}

\* both items held and the player back in the room the sword was taken from
C26_Witness ==
    /\ InSession
    /\ FixedDungeon
    /\ Holds("Sword")
    /\ Holds("Golden Key")
    /\ TheDungeon.currentRoom = WeaponRoom
    /\ TakesCommands

\* both items held and the player back in the room the key was chosen in
C26_WitnessChoiceRoom ==
    /\ InSession
    /\ FixedDungeon
    /\ Holds("Sword")
    /\ Holds("Golden Key")
    /\ CurRoom.name = "Room of Choice"
    /\ TakesCommands

-----------------------------------------------------------------------------
(* Progress *)

\* this step changed the entity or the choice flag of room r
RoomChanged(r) ==
    \/ TheDungeon'.rooms[r].entity # TheDungeon.rooms[r].entity
    \/ TheDungeon'.rooms[r].isChoiceRoom # TheDungeon.rooms[r].isChoiceRoom

(* C27: within a run the rooms stay the same rooms; an empty entity slot     *)
(* stays empty, a choice flag that is false stays false, finalBossDefeated   *)
(* once true stays true; and a step changes the entity or the choice flag of *)
(* no room but the one the cursor is on when the step ends.                  *)
C27_MonotonicProgress ==
    [][(InSession /\ currentStateID # "NAME_INPUT") =>
        /\ DOMAIN TheDungeon'.rooms = DOMAIN TheDungeon.rooms
        /\ \A r \in DOMAIN TheDungeon.rooms :
              /\ TheDungeon.rooms[r].entity = NoEntity =>
                    TheDungeon'.rooms[r].entity = NoEntity
              /\ ~TheDungeon.rooms[r].isChoiceRoom =>
                    ~TheDungeon'.rooms[r].isChoiceRoom
              /\ RoomChanged(r) => r = TheDungeon'.currentRoom
        /\ ThePlayer.finalBossDefeated => ThePlayer'.finalBossDefeated]_vars

\* the boss is beaten and the player has walked back over the cleared rooms
\* as far as the moves allow
C27_Witness ==
    /\ InSession
    /\ FixedDungeon
    /\ ThePlayer.finalBossDefeated
    /\ ChoiceResolved
    /\ \A r \in DOMAIN TheDungeon.rooms : TheDungeon.rooms[r].entity = NoEntity
    /\ TheDungeon.currentRoom = WeaponRoom
    /\ TakesCommands

\* an item lying in a middle room was taken on entry and the room left again
C27_WitnessItem ==
    /\ InSession
    /\ ~FixedDungeon
    /\ Len(ThePlayer.inventory) = 3
    /\ TheDungeon.rooms[2].entity = NoEntity
    /\ TheDungeon.currentRoom = 1
    /\ TakesCommands

-----------------------------------------------------------------------------
(* Room entry *)

\* the room this step moves the cursor to, as it was before the step
Entered == TheDungeon.rooms[TheDungeon'.currentRoom]

EntersRoom ==
    /\ InSession
    /\ ResolvesNavigation
    /\ TheDungeon'.currentRoom # nullptr
    /\ ~Entered.isFinalDoor

(* C28: the step that enters a room holding an item, other than the weapon   *)
(* of the weapon room, resolves the item in that same step: a Potion sets    *)
(* health to 100 and leaves the inventory, any other item has its name added *)
(* to the inventory and leaves health; either way the room's entity is       *)
(* cleared and the interaction state is EXPLORING.                           *)
C28_ItemResolvedOnEntry ==
    [][(EntersRoom /\ IsItem(Entered.entity) /\ ~WeaponToCollect(Entered)) =>
        /\ Entered.entity.kind = "Potion" =>
              /\ ThePlayer'.health = FullHealth
              /\ ThePlayer'.inventory = ThePlayer.inventory
        /\ Entered.entity.kind # "Potion" =>
              /\ ThePlayer'.inventory =
                    Append(ThePlayer.inventory, Entered.entity.name)
              /\ ThePlayer'.health = ThePlayer.health
        /\ TheDungeon'.rooms[TheDungeon'.currentRoom].entity = NoEntity
        /\ currentState' = "EXPLORING"]_vars

\* a key lay in the middle room: a third name is in the inventory
C28_Witness ==
    /\ InSession
    /\ ThePlayer.inventory = << "Sword", "Golden Key", "Golden Key" >>
    /\ TheDungeon.currentRoom = 2
    /\ CurRoom.entity = NoEntity
    /\ currentState = "EXPLORING"
    /\ TakesCommands

\* a potion lay in a room with the choice flag: drunk on entry, no choice put
C28_WitnessPotion ==
    /\ InSession
    /\ ThePlayer.inventory = << >>
    /\ ThePlayer.health = FullHealth
    /\ TheDungeon.currentRoom = 2
    /\ CurRoom.entity = NoEntity
    /\ CurRoom.isChoiceRoom
    /\ currentState = "EXPLORING"
    /\ TheDungeon.path_tracker = << 1 >>
    /\ TakesCommands

(* C29: the step that enters a room holding an enemy sets the interaction    *)
(* state to COMBAT and, of the player and the dungeon, changes only the      *)
(* cursor, the tracker and moves: health, inventory, finalBossDefeated and   *)
(* every room, the enemy with them, are as before, and the run goes on.      *)
(* From then on no step but the one that resolves a fight changes the        *)
(* player's health, inventory or finalBossDefeated, or any room.             *)
C29_EncounterHasNoEffect ==
    /\ [][(EntersRoom /\ IsEnemy(Entered.entity)) =>
            /\ currentState' = "COMBAT"
            /\ ThePlayer' = [ThePlayer EXCEPT !.moves = @ - 1]
            /\ TheDungeon'.rooms = TheDungeon.rooms
            /\ TheDungeon'.head = TheDungeon.head
            /\ gameOverReason' = gameOverReason
            /\ emitted' = emitted
            /\ currentStateID' = currentStateID
            /\ currentTransition' = currentTransition]_vars
    /\ [][(InSession /\ currentStateID = "GAMEPLAY" /\ currentState = "COMBAT"
            /\ IsEnemy(CurRoom.entity) /\ ~Resolves("handleCombat")) =>
            /\ ThePlayer'.health = ThePlayer.health
            /\ ThePlayer'.inventory = ThePlayer.inventory
            /\ ThePlayer'.finalBossDefeated = ThePlayer.finalBossDefeated
            /\ TheDungeon'.rooms = TheDungeon.rooms]_vars

\* the boss chamber entered: the boss stands, nothing is lost yet
C29_Witness ==
    /\ InSession
    /\ FixedDungeon
    /\ CurRoom.entity = BossEnemy("Final Boss", BossDamage)
    /\ currentState = "COMBAT"
    /\ ~ThePlayer.finalBossDefeated
    /\ ThePlayer.moves = StartMoves - 7
    /\ TakesCommands

\* a fight key is accepted, the fight not yet carried out: still no effect
C29_WitnessPending ==
    /\ InSession
    /\ FixedDungeon
    /\ TheDungeon.currentRoom = 2
    /\ CurRoom.entity = MinionEnemy("Wizard", WizardDamage)
    /\ currentState = "COMBAT"
    /\ ThePlayer.health = StartHealth
    /\ transitionState = "FADING_OUT"
    /\ onTransitionComplete.op = "handleCombat"

-----------------------------------------------------------------------------
(* One command at a time *)

Pending == currentStateID = "GAMEPLAY" /\ transitionState # "NONE"
Deferred == onTransitionComplete # NoCallback
run == << playerLogic, dungeonLogic, currentState, gameOverReason, emitted,
          currentStateID, nextStateID, currentTransition >>

(* C30: while a gameplay fade is pending, a key press handed to the gameplay *)
(* screen changes nothing.  A deferred callback exists only during the       *)
(* fade-out; it is stored by a step that changes nothing else of the run,    *)
(* it is never replaced by another, and until the step that runs it the      *)
(* player, the dungeon and the interaction state stay as they were when it   *)
(* was stored.                                                               *)
C30_OneCommandAtATime ==
    /\ [][(Pending /\ Pressed(KeyCodes)) => UNCHANGED engine]_vars
    /\ [](Deferred => (Pending /\ transitionState = "FADING_OUT"))
    /\ [][(~Deferred /\ Deferred') =>
            (Pressed(KeyCodes) /\ transitionState = "NONE" /\ UNCHANGED run)]_vars
    /\ [][Deferred =>
            \/ ~Deferred'
            \/ (onTransitionComplete' = onTransitionComplete /\ UNCHANGED run)]_vars

\* the fight is accepted and pending; a flee key pressed after it did nothing
C30_Witness ==
    /\ InSession
    /\ transitionState = "FADING_OUT"
    /\ onTransitionComplete = Callback("handleCombat", 0)
    /\ lastEvent = KeyPressed("R")
    /\ currentTransition = "NONE"
    /\ emitted = 0

\* a key pressed during the fade-in is dropped as well
C30_WitnessFadeIn ==
    /\ InSession
    /\ Accepting
    /\ transitionState = "FADING_IN"
    /\ currentState = "CHOICE"
    /\ lastEvent = KeyPressed("Num1")
    /\ ~Holds("Golden Key")

-----------------------------------------------------------------------------
(* The moves budget *)

\* the frame of update that ends a gameplay fade-out
EndsFadeOut == Accepting /\ transitionState = "FADING_OUT" /\ lastEvent' = NoEvent

(* C31: in a run of the game moves is never negative and never above the 10  *)
(* it starts with, so no more than 10 navigations are carried out; and the   *)
(* frame that ends a fade-out never ends the run for want of moves: that     *)
(* loss comes only from the key press guarded by moves <= 0.                 *)
C31_MovesNeverNegative ==
    /\ [](InSession => (ThePlayer.moves >= 0 /\ ThePlayer.moves <= StartMoves))
    /\ [][(InSession /\ EndsFadeOut) =>
            ~(emitted' # emitted /\ gameOverReason' = ReasonMoves)]_vars
    /\ [][(InSession /\ emitted' # emitted /\ gameOverReason' = ReasonMoves
            /\ currentStateID = "GAMEPLAY") =>
            (Pressed({"F", "B"}) /\ ThePlayer.moves = 0)]_vars

\* the tenth navigation is done: no moves left, the run still goes on
C31_Witness ==
    /\ InSession
    /\ FixedDungeon
    /\ ThePlayer.moves = 0
    /\ TheDungeon.currentRoom # 1
    /\ currentState = "EXPLORING"
    /\ emitted = 0
    /\ TakesCommands

\* the eleventh navigation was asked for: the key press ended the run
C31_WitnessLoss ==
    /\ InSession
    /\ FixedDungeon
    /\ ThePlayer.moves = 0
    /\ emitted = 1
    /\ gameOverReason = ReasonMoves
    /\ lastEvent = KeyPressed("F")

-----------------------------------------------------------------------------
(* The final door of the game *)

(* C32: in the nine-room game the cursor is on the final door only with      *)
(* finalBossDefeated true; the run has then ended, as a win when the Golden  *)
(* Key is held and else as the loss for want of the key; and the loss "the   *)
(* boss must be defeated" is the outcome of no run.                          *)
C32_BossBeatenAtDoor ==
    /\ gameOverReason # ReasonBoss
    /\ (InSession /\ FixedDungeon /\ CurRoom.isFinalDoor) =>
          /\ ThePlayer.finalBossDefeated
          /\ emitted = 1
          /\ gameOverReason = IF Holds("Golden Key") THEN ReasonWin ELSE ReasonKey

\* at the door with the key: the win
C32_Witness ==
    /\ InSession
    /\ FixedDungeon
    /\ CurRoom.isFinalDoor
    /\ ThePlayer.finalBossDefeated
    /\ Holds("Golden Key")
    /\ gameOverReason = ReasonWin

\* at the door with the potion drunk instead: the key is missing
C32_WitnessNoKey ==
    /\ InSession
    /\ FixedDungeon
    /\ CurRoom.isFinalDoor
    /\ ThePlayer.finalBossDefeated
    /\ ~Holds("Golden Key")
    /\ gameOverReason = ReasonKey

-----------------------------------------------------------------------------
(* The path tracker of the game *)

\* the rooms before room c, the nearest on top
RoomsBefore(c) == [i \in 1..(c - 1) |-> c - i]

(* C33: in every state of a run the path tracker holds exactly the rooms     *)
(* before the cursor, the cursor's predecessor on top, so its depth is the   *)
(* number of rooms before the cursor; canMoveBack is false exactly at the    *)
(* entrance; and the step that carries out a moveBack finds the tracker      *)
(* non-empty, so that top returns a room and does not throw, and moves the   *)
(* cursor one room back.                                                     *)
C33_TrackerIsPathToCursor ==
    /\ [](InSession =>
            /\ TheDungeon.path_tracker = RoomsBefore(TheDungeon.currentRoom)
            /\ Len(TheDungeon.path_tracker) = TheDungeon.currentRoom - 1
            /\ canMoveBack(TheDungeon) <=> TheDungeon.currentRoom # TheDungeon.head)
    /\ [][(InSession /\ Resolves("moveBack")) =>
            /\ "throw" \notin DOMAIN top(TheDungeon.path_tracker)
            /\ TheDungeon'.currentRoom = TheDungeon.currentRoom - 1
            /\ TheDungeon.rooms[TheDungeon'.currentRoom].next =
                  TheDungeon.currentRoom]_vars

\* forward to the weapon room, back twice, forward once: three rooms behind
C33_Witness ==
    /\ InSession
    /\ FixedDungeon
    /\ TheDungeon.currentRoom = 4
    /\ TheDungeon.path_tracker = << 3, 2, 1 >>
    /\ ThePlayer.moves = 3
    /\ TakesCommands

\* back at the entrance after a step forward and a step back: nothing behind
C33_WitnessEntrance ==
    /\ InSession
    /\ FixedDungeon
    /\ TheDungeon.currentRoom = 1
    /\ TheDungeon.path_tracker = << >>
    /\ ThePlayer.moves = StartMoves - 2
    /\ TakesCommands

-----------------------------------------------------------------------------
(* Winning *)

\* navigations a straight walk from the entrance to the final door takes
StraightWalk == NumRooms - 1

C34_WitnessDetour ==
    /\ Won
    /\ ThePlayer.moves = 0
    /\ CurRoom.isFinalDoor

-----------------------------------------------------------------------------
(* Termination *)

EnemiesLeft == Cardinality({r \in DOMAIN TheDungeon.rooms :
                               IsEnemy(TheDungeon.rooms[r].entity)})
WeaponsLeft == Cardinality({r \in DOMAIN TheDungeon.rooms :
                               WeaponToCollect(TheDungeon.rooms[r])})
ChoicesLeft == Cardinality({r \in DOMAIN TheDungeon.rooms :
                               TheDungeon.rooms[r].isChoiceRoom})
\* what a run can still spend: navigations, fights, the collect, the choice
Rank == ThePlayer.moves + EnemiesLeft + WeaponsLeft + ChoicesLeft

\* some key press would be accepted by the gameplay screen in this state
SomeKeyAccepted ==
    \E k \in KeyCodes : GamePlayScreen_handleEvent(State, KeyPressed(k)) # State

Ends == emitted' # emitted \/ nextStateID' = "MENU"

(* C35: a run of the game that takes commands always has a key it accepts.   *)
(* Its budgets are 10 navigations, 5 fights, 1 collect and 1 choice, none    *)
(* ever negative or refilled, and each command carried out spends one unit   *)
(* of its own budget or ends the run: a navigation a move, a fight an enemy, *)
(* the collect the weapon, the choice the choice flag.  So the commands of   *)
(* a run are finitely many and the last accepted one ends it.                *)
C35_SessionTerminates ==
    /\ []((TakesCommands /\ FixedDungeon) => SomeKeyAccepted)
    /\ []((InSession /\ FixedDungeon) =>
            /\ ThePlayer.moves \in 0..StartMoves
            /\ EnemiesLeft \in 0..5
            /\ WeaponsLeft \in 0..1
            /\ ChoicesLeft \in 0..1)
    /\ [][StartsRun => Rank' = StartMoves + 5 + 1 + 1]_vars
    /\ [][(InSession /\ currentStateID = "GAMEPLAY") =>
            /\ Rank' <= Rank
            /\ (TakesCommands /\ engine' # engine) =>
                  (Deferred' \/ Ends)
            /\ (Accepting /\ Deferred /\ ~Deferred') =>
                  (Rank' = Rank - 1 \/ Ends)
            /\ ResolvesNavigation => ThePlayer'.moves = ThePlayer.moves - 1
            /\ Resolves("handleCombat") =>
                  (EnemiesLeft' = EnemiesLeft - 1 \/ Ends)
            /\ Resolves("collect") => WeaponsLeft' = WeaponsLeft - 1
            /\ Resolves("handleChoice") => ChoicesLeft' = ChoicesLeft - 1]_vars

\* every budget is spent and the run still takes commands
C35_Witness ==
    /\ InSession
    /\ FixedDungeon
    /\ Rank = 0
    /\ emitted = 0
    /\ TakesCommands
    /\ SomeKeyAccepted

\* the command accepted with every budget spent ended the run
C35_WitnessEnd ==
    /\ InSession
    /\ FixedDungeon
    /\ Rank = 0
    /\ emitted = 1
    /\ gameOverReason = ReasonMoves
    /\ ThePlayer.finalBossDefeated

-----------------------------------------------------------------------------
(* Rooms entered again *)

\* a room whose encounter is behind the player
Resolved(room) == room.entity = NoEntity /\ ~room.isChoiceRoom

\* a key press on the gameplay screen followed by the two frames that end
\* the fade-out and the fade-in
Command(s, k) ==
    GamePlayScreen_update(GamePlayScreen_update(
        GamePlayScreen_handleEvent(s, KeyPressed(k))))

AfterForward == Command(State, "F")
AfterForwardBack == Command(AfterForward, "B")

\* [F] is carried out from here and [B] is carried out right after it
CanGoForwardAndBack ==
    /\ TakesCommands
    /\ FixedDungeon
    /\ currentState = "EXPLORING"
    /\ ThePlayer.moves > 0
    /\ canMoveForward(TheDungeon)
    /\ AfterForward.currentTransition = "NONE"
    /\ AfterForward.currentState = "EXPLORING"
    /\ AfterForward.playerLogic[1].moves > 0

(* C36: the step that enters a room with no entity and no choice flag sets   *)
(* the state to EXPLORING and changes nothing of the player but moves and no *)
(* room.  And where [F] and then at once [B] are carried out from such a     *)
(* room, the result is the state they started from with moves lower by 2:    *)
(* cursor, tracker and all else are restored.                                *)
C36_ReentryHasNoEffect ==
    /\ [][(EntersRoom /\ FixedDungeon /\ Resolved(Entered)) =>
            /\ currentState' = "EXPLORING"
            /\ ThePlayer' = [ThePlayer EXCEPT !.moves = @ - 1]
            /\ TheDungeon'.rooms = TheDungeon.rooms
            /\ emitted' = emitted]_vars
    /\ []((CanGoForwardAndBack /\ Resolved(CurRoom)) =>
            /\ AfterForward.dungeonLogic[1].currentRoom = CurRoom.next
            /\ AfterForwardBack =
                  [State EXCEPT !.playerLogic[1].moves = @ - 2])

\* the zombie's crypt entered again, the sword still lying next door
C36_Witness ==
    /\ InSession
    /\ FixedDungeon
    /\ TheDungeon.currentRoom = 4
    /\ TheDungeon.path_tracker = << 3, 2, 1 >>
    /\ ThePlayer.moves = StartMoves - 5
    /\ ThePlayer.health = 70
    /\ WeaponsLeft = 1
    /\ currentState = "EXPLORING"
    /\ CanGoForwardAndBack
    /\ AfterForwardBack # State

\* past the choice, back in the emptied weapon room: forward and back again
C36_WitnessDeep ==
    /\ InSession
    /\ FixedDungeon
    /\ TheDungeon.currentRoom = WeaponRoom
    /\ Resolved(CurRoom)
    /\ ChoiceResolved
    /\ Len(TheDungeon.path_tracker) = 4
    /\ CanGoForwardAndBack

-----------------------------------------------------------------------------
(* Quit *)

QuitAccepted ==
    /\ transitionState = "NONE"
    /\ currentState = "EXPLORING"
    /\ ~WeaponToCollect(CurRoom)

\* the state as the gameplay screen would see it in interaction state st
InState(st) == [State EXCEPT !.currentState = st]

(* C37: a [Q] handed to the gameplay screen is acted on only in EXPLORING    *)
(* and not beside the uncollected weapon of the weapon room; it then starts  *)
(* the change to the menu and changes nothing else: no outcome is raised,    *)
(* the player and the dungeon are as before.  Any other [Q] changes nothing, *)
(* and the handler ignores [Q] in COMBAT, CHOICE and MESSAGE.  The gameplay  *)
(* screen is left for the menu only that way.                                *)
C37_QuitOnlyWhenExploring ==
    /\ [][(InSession /\ currentStateID = "GAMEPLAY" /\ Pressed({"Q"})) =>
            IF QuitAccepted
            THEN /\ nextStateID' = "MENU"
                 /\ currentTransition' = "FADING_OUT"
                 /\ UNCHANGED << currentStateID, playerName, isActive, playerLogic,
                                 dungeonLogic, gameOverReason, currentState,
                                 transitionState, onTransitionComplete, emitted >>
            ELSE UNCHANGED engine]_vars
    /\ [](TakesCommands =>
            \A st \in {"COMBAT", "CHOICE", "MESSAGE"} :
               GamePlayScreen_handleEvent(InState(st), KeyPressed("Q")) = InState(st))
    /\ [][(currentStateID = "GAMEPLAY" /\ nextStateID' = "MENU"
            /\ nextStateID # "MENU") => (Pressed({"Q"}) /\ QuitAccepted)]_vars
    /\ [][(currentStateID = "GAMEPLAY" /\ currentStateID' = "MENU") =>
            UNCHANGED << playerLogic, dungeonLogic, gameOverReason, emitted >>]_vars

\* a run quit after the wizard was beaten: on its way to the menu
C37_Witness ==
    /\ InSession
    /\ currentStateID = "GAMEPLAY"
    /\ nextStateID = "MENU"
    /\ currentTransition = "FADING_OUT"
    /\ lastEvent = KeyPressed("Q")
    /\ ThePlayer.health = StartHealth - WizardDamage
    /\ emitted = 0

\* [Q] beside the sword: nothing happened
C37_WitnessSwordRoom ==
    /\ TakesCommands
    /\ WeaponToCollect(CurRoom)
    /\ lastEvent = KeyPressed("Q")
    /\ nextStateID # "MENU"

\* [Q] in front of an enemy: nothing happened
C37_WitnessCombat ==
    /\ TakesCommands
    /\ currentState = "COMBAT"
    /\ lastEvent = KeyPressed("Q")
    /\ nextStateID # "MENU"

-----------------------------------------------------------------------------
(* The screens *)

ScreenIDs == {"MENU", "NAME_INPUT", "GAMEPLAY", "GAME_OVER"}
ScreenChanges == {<< "MENU", "NAME_INPUT" >>, << "NAME_INPUT", "MENU" >>,
                  << "NAME_INPUT", "GAMEPLAY" >>, << "GAMEPLAY", "MENU" >>,
                  << "GAMEPLAY", "GAME_OVER" >>, << "GAME_OVER", "MENU" >>}
Events == {KeyPressed(k) : k \in KeyCodes} \cup {TextEntered(u) : u \in Unicodes}

\* a run as Game::startGameplay makes it
FreshRun ==
    /\ InSession
    /\ ThePlayer.health = 100
    /\ ThePlayer.moves = 10
    /\ ThePlayer.inventory = << >>
    /\ ~ThePlayer.finalBossDefeated
    /\ Len(TheDungeon.rooms) = 9
    /\ TheDungeon.currentRoom = 1
    /\ TheDungeon.path_tracker = << >>
    /\ EnemiesLeft = 5 /\ WeaponsLeft = 1 /\ ChoicesLeft = 1

(* C38: the current screen changes only along MENU to NAME_INPUT,            *)
(* NAME_INPUT to MENU, NAME_INPUT to GAMEPLAY, GAMEPLAY to MENU, GAMEPLAY to *)
(* GAME_OVER and GAME_OVER to MENU, at the end of a fade-out and to the      *)
(* screen asked for; GAMEPLAY is entered from the name input only with a     *)
(* name of 1 to 15 characters, and a name never has more; changeScreen       *)
(* changes nothing while a screen transition runs or when asked for the      *)
(* current screen; while a screen transition runs no event changes anything  *)
(* and only the transition's own frames act; and every entry into GAMEPLAY   *)
(* finds a fresh player and a fresh nine-room dungeon.                       *)
C38_ScreenMachine ==
    /\ [][currentStateID' # currentStateID =>
            /\ << currentStateID, currentStateID' >> \in ScreenChanges
            /\ currentTransition = "FADING_OUT"
            /\ currentStateID' = nextStateID]_vars
    /\ [][(currentStateID = "NAME_INPUT" /\ currentStateID' = "GAMEPLAY") =>
            (playerName >= 1 /\ playerName <= 15)]_vars
    /\ [](playerName >= 0 /\ playerName <= 15)
    /\ [](\A id \in ScreenIDs :
            (currentTransition # "NONE" \/ id = currentStateID) =>
                changeScreen(State, id) = State)
    /\ [](currentTransition # "NONE" =>
            \A e \in Events : processEvents(State, e) = State)
    /\ [][(currentTransition # "NONE" /\ engine' # engine) =>
            currentTransition' # currentTransition]_vars
    /\ [][(currentStateID # "GAMEPLAY" /\ currentStateID' = "GAMEPLAY") =>
            /\ FreshRun /\ FreshRun'
            /\ dungeonLogic' = << setupDungeon(Dungeon) >>]_vars

\* a second run entered under a name of 15 characters, the first one fled
C38_Witness ==
    /\ currentStateID = "GAMEPLAY"
    /\ currentTransition = "NONE"
    /\ playerName = MAX_NAME_LENGTH
    /\ gameOverReason = ReasonFled
    /\ FreshRun
    /\ TakesCommands

\* a name at its limit on the name input screen
C38_WitnessFullName ==
    /\ currentStateID = "NAME_INPUT"
    /\ currentTransition = "NONE"
    /\ isActive
    /\ playerName = MAX_NAME_LENGTH

\* the game over screen, reached from a run that fled the wizard
C38_WitnessGameOver ==
    /\ currentStateID = "GAME_OVER"
    /\ currentTransition = "NONE"
    /\ InSession
    /\ ThePlayer.moves = StartMoves - 1
    /\ gameOverReason = ReasonFled
    /\ emitted = 1

\* back at the menu by a quit
C38_WitnessQuit ==
    /\ currentStateID = "MENU"
    /\ InSession
    /\ emitted = 0
    /\ ThePlayer.moves = StartMoves - 2

====
